---- MODULE Spec2Model ----
(***************************************************************************)
(* State-machine model of the strand transport and trust core:             *)
(*   - Reliable-Ordered and Reliable-Unordered per-mode receivers          *)
(*     (strandstream/src/transport)                                        *)
(*   - the three-message handshake (nextrust/src/handshake/protocol.rs)    *)
(*   - the retransmission engine (nexstream/src/retransmission.rs)         *)
(*   - the loss detector (nexstream/src/loss_detection.rs)                 *)
(*   - the CUBIC controller (nexstream/src/congestion/cubic.rs)            *)
(*   - the stream (strandstream/src/stream.rs)                             *)
(*   - the stream multiplexer (strandstream/src/mux.rs)                    *)
(*   - the flow controller (strandstream/src/flow_control.rs)              *)
(*   - the connection (nexstream/src/connection.rs)                        *)
(*   - the RTT estimator (strandstream/src/rtt.rs)                         *)
(* Each component has its own specification (SpecRO, SpecRU, ...) over the *)
(* shared variable tuple; a component's actions leave the other            *)
(* components' variables unchanged.                                        *)
(***************************************************************************)
EXTENDS Integers, Sequences, FiniteSets, Bags, TLC

VARIABLES
    \* Reliable-Ordered sender / receiver (reliable_ordered.rs)
    ro_next_seq, ro_send_buffer, ro_expected_seq, ro_recv_buffer,
    ro_sent, ro_log, ro_arrived, ro_last,
    \* Reliable-Unordered receiver (reliable_unordered.rs)
    ru_delivered, ru_count, ru_distinct, ru_last, ru_since,
    \* Handshake roles (protocol.rs): Initiator.state, Responder.state,
    \* Responder.session_keys_cache, the messages produced so far, and the
    \* record of the calls made
    i_state, r_state, r_cache, hs_wire, i_last, r_last, i_accepted, r_accepted,
    hs_clean,
    \* the roles on which a process_* call has failed on a check of its message
    hs_failed,
    \* Retransmission engine (retransmission.rs): heap, pending,
    \* inflight_bytes, max_bytes; the clock read by push; call history
    rt_heap, rt_pending, rt_inflight, rt_max_bytes, rt_clock,
    rt_last, rt_emits, rt_acked,
    \* Loss detector (loss_detection.rs): sent_packets, largest_acked; the
    \* last call and, per seq in flight, the higher seqs acknowledged since
    \* it was sent
    ld_sent, ld_largest, ld_last, ld_higher,
    \* CUBIC controller (congestion/cubic.rs): its fields, the last call and the number of calls made
    cc_cwnd, cc_ssthresh, cc_w_max, cc_epoch_start, cc_in_flight, cc_ack_accum, cc_last, cc_calls,
    \* Stream (strandstream/src/stream.rs): the stream, the last call made on it and which of close / remote_close / reset have been called since it was opened
    st_stream, st_last, st_hist,
    \* Multiplexer (strandstream/src/mux.rs): streams, next_client_stream_id, max_streams; the last call and the number of successful create_stream calls
    mx_streams, mx_next_client_stream_id, mx_max_streams, mx_last, mx_created,
    \* Connection (nexstream/src/connection.rs): the connection and the last call made on it, with the state it was made in
    cn_conn, cn_last,
    \* Flow controller (strandstream/src/flow_control.rs): the controller and the last call made on it, with available(stream_id) before the call
    fc_ctl, fc_last,
    \* RTT estimator (strandstream/src/rtt.rs): the estimator, the last call and the number of updates made
    rtt_est, rtt_last, rtt_calls,
    \* Multiplexer followed for its outbound frames (strandstream/src/mux.rs): the multiplexer, per stream of the table the payloads sent on it and the payloads drain_frames has returned for it, the last call and the streams created
    dr_mux, dr_sent, dr_returned, dr_last, dr_created,
    \* Wire frames (strandstream/src/frame.rs): the frame last encoded, its encoding, its encoded_len and the result of the last decode
    fr_frame, fr_bytes, fr_len, fr_decoded,
    \* MIC builder and validator (strandtrust/src/mic): the builder, the MIC held (built, read from the wire or tampered with) and the last call
    mic_builder, mic_cert, mic_last,
    \* A per-mode sender on its own (strandstream/src/transport): its mode, the sender, the number of DATA frames send has returned and the last call
    sn_mode, sn_sender, sn_emitted, sn_last

roVars == <<ro_next_seq, ro_send_buffer, ro_expected_seq, ro_recv_buffer,
            ro_sent, ro_log, ro_arrived, ro_last>>
ruVars == <<ru_delivered, ru_count, ru_distinct, ru_last, ru_since>>

hsVars == <<i_state, r_state, r_cache, hs_wire, i_last, r_last, i_accepted,
            r_accepted, hs_clean, hs_failed>>

rtVars == <<rt_heap, rt_pending, rt_inflight, rt_max_bytes, rt_clock,
            rt_last, rt_emits, rt_acked>>

ldVars == <<ld_sent, ld_largest, ld_last, ld_higher>>

ccVars == <<cc_cwnd, cc_ssthresh, cc_w_max, cc_epoch_start, cc_in_flight, cc_ack_accum, cc_last, cc_calls>>

stVars == <<st_stream, st_last, st_hist>>

mxVars == <<mx_streams, mx_next_client_stream_id, mx_max_streams, mx_last, mx_created>>

cnVars == <<cn_conn, cn_last>>

fcVars == <<fc_ctl, fc_last>>

rttVars == <<rtt_est, rtt_last, rtt_calls>>

drVars == <<dr_mux, dr_sent, dr_returned, dr_last, dr_created>>

frVars == <<fr_frame, fr_bytes, fr_len, fr_decoded>>

micVars == <<mic_builder, mic_cert, mic_last>>

snVars == <<sn_mode, sn_sender, sn_emitted, sn_last>>

vars == <<roVars, ruVars, hsVars, rtVars, ldVars, ccVars, stVars, mxVars, cnVars, fcVars, rttVars, drVars, frVars, micVars, snVars>>

\* ------------------------------------------------------------------------
\* Generic helpers
\* ------------------------------------------------------------------------

\* Size of the u32 sequence-number space (2^32 in the source), scaled down
\* to a value the model checker can represent and wrap.
SeqSpace == 16

\* u32::wrapping_add(1)
WrappingAdd1(x) == (x + 1) % SeqSpace

\* BTreeMap / HashMap as a function over its key set
EmptyMap == << >>

MapRemove(m, k) == [x \in (DOMAIN m) \ {k} |-> m[x]]

MapInsert(m, k, v) == [x \in (DOMAIN m) \cup {k} |-> IF x = k THEN v ELSE m[x]]

\* entry(k).or_insert_with(v): keeps the value already stored under k
MapOrInsert(m, k, v) == IF k \in DOMAIN m THEN m ELSE MapInsert(m, k, v)

IsPrefix(s, t) == Len(s) <= Len(t) /\ SubSeq(t, 1, Len(s)) = s

\* ------------------------------------------------------------------------
\* Reliable-Ordered mode
\* ------------------------------------------------------------------------

\* Number of payloads the sender sends (N of the claim)
MaxSends == 3

Payloads == {"A", "B"}

StreamId == 1

DataFrame(seq, payload) ==
    [type |-> "Data", stream_id |-> StreamId, seq |-> seq, flags |-> 0, payload |-> payload]

\* ReliableOrderedSender::send
ROSend(data) ==
    /\ Len(ro_sent) < MaxSends
    /\ LET seq == ro_next_seq
           frame == DataFrame(seq, data)
       IN /\ ro_next_seq' = WrappingAdd1(ro_next_seq)
          /\ ro_send_buffer' = MapInsert(ro_send_buffer, seq, frame)
          /\ ro_sent' = Append(ro_sent, frame)
          /\ ro_last' = [op |-> "send", seq |-> seq, out |-> <<frame>>]
    /\ UNCHANGED <<ro_expected_seq, ro_recv_buffer, ro_log, ro_arrived>>
    /\ UNCHANGED <<ruVars, hsVars, rtVars, ldVars, ccVars, stVars, mxVars, cnVars, fcVars, rttVars, drVars, frVars, micVars, snVars>>

\* the while-let loop of ReliableOrderedReceiver::receive
RECURSIVE RODrain(_, _, _)
RODrain(expected, buf, delivered) ==
    IF expected \in DOMAIN buf
    THEN RODrain(WrappingAdd1(expected), MapRemove(buf, expected),
                 Append(delivered, buf[expected]))
    ELSE [expected_seq |-> expected, recv_buffer |-> buf, delivered |-> delivered]

\* a receive that delivers at most one frame per call (if instead of while)
ROReceiverReceiveNoLoop(expected, buf, frame) ==
    LET b == MapOrInsert(buf, frame.seq, frame.payload)
    IN IF expected \in DOMAIN b
       THEN [expected_seq |-> WrappingAdd1(expected),
             recv_buffer |-> MapRemove(b, expected),
             delivered |-> <<b[expected]>>]
       ELSE [expected_seq |-> expected, recv_buffer |-> b, delivered |-> << >>]

\* ReliableOrderedReceiver::receive on a DATA frame
ROReceiverReceive(expected, buf, frame) ==
    RODrain(expected, MapOrInsert(buf, frame.seq, frame.payload), << >>)

\* The channel hands the receiver any frame the sender has produced, in any
\* order and any number of times.
ROReceive(i) ==
    /\ i \in 1..Len(ro_sent)
    /\ LET frame == ro_sent[i]
           r == ROReceiverReceive(ro_expected_seq, ro_recv_buffer, frame)
       IN /\ ro_expected_seq' = r.expected_seq
          /\ ro_recv_buffer' = r.recv_buffer
          /\ ro_log' = ro_log \o r.delivered
          /\ ro_arrived' = ro_arrived \cup {frame.seq}
          /\ ro_last' = [op |-> "receive", seq |-> frame.seq, out |-> r.delivered]
    /\ UNCHANGED <<ro_next_seq, ro_send_buffer, ro_sent>>
    /\ UNCHANGED <<ruVars, hsVars, rtVars, ldVars, ccVars, stVars, mxVars, cnVars, fcVars, rttVars, drVars, frVars, micVars, snVars>>

InitRO ==
    /\ ro_next_seq = 0
    /\ ro_send_buffer = EmptyMap
    /\ ro_expected_seq = 0
    /\ ro_recv_buffer = EmptyMap
    /\ ro_sent = << >>
    /\ ro_log = << >>
    /\ ro_arrived = {}
    /\ ro_last = [op |-> "new", seq |-> 0, out |-> << >>]

NextRO ==
    \/ \E data \in Payloads : ROSend(data)
    \/ \E i \in 1..MaxSends : ROReceive(i)

\* payloads in send order
ROSentPayloads == [i \in 1..Len(ro_sent) |-> ro_sent[i].payload]

DELIVERED_GC_THRESHOLD == 4

DELIVERED_GC_DISCARD == 2

\* sequence numbers that may arrive: one more than the GC threshold
RUSeqs == 0..DELIVERED_GC_THRESHOLD

\* history counter saturates here
MaxCount == 2

\* the lowest n elements of a set of numbers (BTreeSet iter().take(n))
LowestN(S, n) == {x \in S : Cardinality({y \in S : y < x}) < n}

\* a gc that removes one seq fewer (used to test the claims)
RUGcOneLess(delivered) == delivered \ LowestN(delivered, DELIVERED_GC_DISCARD - 1)

\* ReliableUnorderedReceiver::gc
RUGc(delivered) == delivered \ LowestN(delivered, DELIVERED_GC_DISCARD)

\* a receive whose GC runs one insertion too early
RUReceiverReceiveEarlyGc(delivered, frame) ==
    IF frame.seq \notin delivered
    THEN LET d == delivered \cup {frame.seq}
         IN [delivered |-> IF Cardinality(d) >= DELIVERED_GC_THRESHOLD - 1 THEN RUGc(d) ELSE d,
             out |-> <<frame.payload>>]
    ELSE [delivered |-> delivered, out |-> << >>]

\* ReliableUnorderedReceiver::receive on a DATA frame
RUReceiverReceive(delivered, frame) ==
    IF frame.seq \notin delivered
    THEN LET d == delivered \cup {frame.seq}
         IN [delivered |-> IF Cardinality(d) >= DELIVERED_GC_THRESHOLD THEN RUGc(d) ELSE d,
             out |-> <<frame.payload>>]
    ELSE [delivered |-> delivered, out |-> << >>]

\* the number of newer packets the documentation of the receiver promises
\* before a delivered seq can be delivered again; ru_since[s] counts, up to
\* this number, the packets delivered since the last delivery of s
RUProtected == DELIVERED_GC_THRESHOLD - DELIVERED_GC_DISCARD

RUPayloadOf(seq) == IF seq % 2 = 0 THEN "A" ELSE "B"

RUReceive(seq) ==
    /\ LET frame == DataFrame(seq, RUPayloadOf(seq))
           r == RUReceiverReceive(ru_delivered, frame)
       IN /\ ru_delivered' = r.delivered
          /\ ru_count' = [ru_count EXCEPT ![seq] =
                             IF r.out = << >> THEN @
                             ELSE IF @ < MaxCount THEN @ + 1 ELSE @]
          /\ ru_distinct' = ru_distinct \cup {seq}
          /\ ru_last' = [op |-> "receive", seq |-> seq, out |-> r.out]
          /\ ru_since' = [s \in RUSeqs |->
                             IF r.out = << >> THEN ru_since[s]
                             ELSE IF s = seq THEN 0
                             ELSE IF ru_since[s] < RUProtected THEN ru_since[s] + 1
                             ELSE ru_since[s]]
    /\ UNCHANGED <<roVars, hsVars, rtVars, ldVars, ccVars, stVars, mxVars, cnVars, fcVars, rttVars, drVars, frVars, micVars, snVars>>

InitRU ==
    /\ ru_delivered = {}
    /\ ru_count = [s \in RUSeqs |-> 0]
    /\ ru_distinct = {}
    /\ ru_last = [op |-> "new", seq |-> 0, out |-> << >>]
    /\ ru_since = [s \in RUSeqs |-> 0]

NextRU == \E seq \in RUSeqs : RUReceive(seq)

Alice == "alice"

Bob == "bob"

Mallory == "mallory"

\* caller-supplied unix time for MIC validation
Nows == 0..3

\* MIC::signable_bytes: every field except the signature
SignableBytes(mic) ==
    <<mic.node_id, mic.model_hash, mic.valid_from, mic.valid_until, mic.issuer_public_key>>

\* IdentityKeyPair::sign
Sign(signer, message) == [signer |-> signer, message |-> message]

\* crypto::keys::verify_signature
VerifySignature(pubkey, message, signature) ==
    signature.signer = pubkey /\ signature.message = message

\* MICBuilder::build: node_id and issuer_public_key are the builder's public
\* key, and the MIC is signed with the builder's key
BuildMIC(keypair, from, until) ==
    LET unsigned == [node_id |-> keypair, model_hash |-> "hash", valid_from |-> from,
                     valid_until |-> until, issuer_public_key |-> keypair]
    IN [node_id |-> keypair, model_hash |-> "hash", valid_from |-> from,
        valid_until |-> until, issuer_public_key |-> keypair,
        signature |-> Sign(keypair, SignableBytes(unsigned))]

MicAlice == BuildMIC(Alice, 1, 2)

MicBob == BuildMIC(Bob, 1, 2)

MicMallory == BuildMIC(Mallory, 1, 2)

\* Alice's MIC with the validity window widened after signing
MicAliceAltered == [MicAlice EXCEPT !.valid_until = 3]

\* MICs are public: every party can present any of them
KnownMICs == {MicAlice, MicBob, MicMallory, MicAliceAltered}

\* a validate that checks the signature but not the validity window
ValidateNoTimeCheck(mic, now) ==
    IF ~VerifySignature(mic.issuer_public_key, SignableBytes(mic), mic.signature)
    THEN "SignatureVerification"
    ELSE "Ok"

\* a validate whose window excludes its two bounds (used to test the claims)
ValidateExclusiveBounds(mic, now) ==
    IF ~VerifySignature(mic.issuer_public_key, SignableBytes(mic), mic.signature)
    THEN "SignatureVerification"
    ELSE IF now <= mic.valid_from THEN "MicNotYetValid"
    ELSE IF now >= mic.valid_until THEN "MicExpired"
    ELSE "Ok"

\* mic::validator::validate
Validate(mic, now) ==
    IF ~VerifySignature(mic.issuer_public_key, SignableBytes(mic), mic.signature)
    THEN "SignatureVerification"
    ELSE IF now < mic.valid_from THEN "MicNotYetValid"
    ELSE IF now > mic.valid_until THEN "MicExpired"
    ELSE "Ok"

\* X25519KeyPair::public_key_bytes
X25519Public(secret) == [x25519_public_of |-> secret]

\* X25519KeyPair::diffie_hellman: DH(a, pub(b)) = DH(b, pub(a))
DiffieHellman(secret, peer_public) == {secret, peer_public.x25519_public_of}

\* node_id_from_mic: truncated SHA-256 of the public key held in mic.node_id
NodeIdFromMic(mic) == [sha256_16_of |-> mic.node_id]

\* derive_session_keys
DeriveSessionKeys(shared_secret, client_node_id, server_node_id) ==
    [client_write_key |-> <<"client write key", shared_secret, client_node_id, server_node_id>>,
     server_write_key |-> <<"server write key", shared_secret, client_node_id, server_node_id>>,
     client_write_iv |-> <<"client write iv", shared_secret, client_node_id, server_node_id>>,
     server_write_iv |-> <<"server write iv", shared_secret, client_node_id, server_node_id>>]

\* handshake_nonce
HandshakeNonce(msg_num) == <<0, 0, 0, 0, 0, 0, 0, 0, 0, 0, 0, msg_num>>

FINISHED_MSG == "nexus handshake finished"

\* AeadCipher::encrypt
AeadEncrypt(key, nonce, plaintext, aad) ==
    [key |-> key, nonce |-> nonce, plaintext |-> plaintext, aad |-> aad, intact |-> TRUE]

\* AeadCipher::decrypt: fails on any tag mismatch
AeadDecrypt(key, nonce, ciphertext, aad) ==
    IF /\ ciphertext.intact
       /\ ciphertext.key = key
       /\ ciphertext.nonce = nonce
       /\ ciphertext.aad = aad
    THEN [ok |-> TRUE, plaintext |-> ciphertext.plaintext]
    ELSE [ok |-> FALSE, plaintext |-> ""]

\* a ciphertext with a bit flipped in transit
Tamper(ciphertext) == [ciphertext EXCEPT !.intact = FALSE]

\* ephemeral X25519 secrets drawn from the OS RNG by each party
InitiatorSecret == "eI"

ResponderSecret == "eR"

AttackerSecret == "eM"

NoMsg == [type |-> "none"]

HandshakeInit(ephemeral_pub, initiator_mic) ==
    [type |-> "HandshakeInit", ephemeral_pub |-> ephemeral_pub, initiator_mic |-> initiator_mic]

HandshakeResponse(ephemeral_pub, responder_mic, encrypted_payload) ==
    [type |-> "HandshakeResponse", ephemeral_pub |-> ephemeral_pub,
     responder_mic |-> responder_mic, encrypted_payload |-> encrypted_payload]

HandshakeComplete(encrypted_payload) ==
    [type |-> "HandshakeComplete", encrypted_payload |-> encrypted_payload]

WireOf(type) == {m \in hs_wire : m.type = type}

\* A network attacker that holds only its own ephemeral secret and the
\* public MICs.  It can relay a message seen on the wire, replace the MIC or
\* flip a bit of the payload of such a message, and build messages of its own
\* around its ephemeral public key, encrypting under any key it can derive
\* from its secret and an ephemeral public key seen on the wire.
HonestPublics ==
    {m.ephemeral_pub : m \in WireOf("HandshakeInit") \cup WireOf("HandshakeResponse")}

AttackerKeys ==
    UNION {LET k == DeriveSessionKeys(DiffieHellman(AttackerSecret, p),
                                      NodeIdFromMic(ids[1]), NodeIdFromMic(ids[2]))
           IN {k.client_write_key, k.server_write_key} :
           <<p, ids>> \in HonestPublics \X {<<MicAlice, MicBob>>, <<MicMallory, MicBob>>,
                                            <<MicAlice, MicMallory>>}}

AttackerPayloads ==
    {AeadEncrypt(k, HandshakeNonce(n), FINISHED_MSG, "") : <<k, n>> \in AttackerKeys \X {2, 3}}

InitMessages ==
    WireOf("HandshakeInit")
        \cup {[m EXCEPT !.initiator_mic = mic] :
                 <<m, mic>> \in WireOf("HandshakeInit") \X KnownMICs}
        \cup {HandshakeInit(X25519Public(AttackerSecret), mic) : mic \in KnownMICs}

ResponseMessages ==
    WireOf("HandshakeResponse")
        \cup {[m EXCEPT !.responder_mic = mic] :
                 <<m, mic>> \in WireOf("HandshakeResponse") \X KnownMICs}
        \cup {[m EXCEPT !.encrypted_payload = Tamper(@)] : m \in WireOf("HandshakeResponse")}
        \cup {HandshakeResponse(X25519Public(AttackerSecret), mic, c) :
                 <<mic, c>> \in KnownMICs \X AttackerPayloads}

CompleteMessages ==
    WireOf("HandshakeComplete")
        \cup {[m EXCEPT !.encrypted_payload = Tamper(@)] : m \in WireOf("HandshakeComplete")}
        \cup {HandshakeComplete(c) : c \in AttackerPayloads}

\* what the specification demands of a peer MIC, stated independently of
\* the validator
MicValidAt(mic, now) ==
    /\ mic.signature = [signer |-> mic.issuer_public_key,
                        message |-> <<mic.node_id, mic.model_hash, mic.valid_from,
                                      mic.valid_until, mic.issuer_public_key>>]
    /\ mic.valid_from <= now
    /\ now <= mic.valid_until

\* the payload is the untampered encryption of the finished literal under key
\* and the nonce ending in n
IsFinishedUnder(payload, key, n) ==
    payload = [key |-> key, nonce |-> <<0, 0, 0, 0, 0, 0, 0, 0, 0, 0, 0, n>>,
               plaintext |-> "nexus handshake finished", aad |-> "", intact |-> TRUE]

\* position in the undisturbed exchange create_init, process_init,
\* process_response, process_complete; Disturbed once any other call is made
Disturbed == 9

CleanStep(k, ok) == IF hs_clean = k /\ ok THEN k + 1 ELSE Disturbed

CallRecord(op, from, result, mic_ok, payload_ok) ==
    [op |-> op, from |-> from, result |-> result, mic_ok |-> mic_ok,
     payload_ok |-> payload_ok]

\* a create_init that starts over from any state (used to test the claims)
CreateInitAnyState ==
    LET ephemeral_pub == X25519Public(InitiatorSecret)
        msg == HandshakeInit(ephemeral_pub, MicAlice)
    IN /\ i_state' = [tag |-> "InitSent", ephemeral_secret |-> InitiatorSecret,
                      ephemeral_public |-> ephemeral_pub]
       /\ hs_wire' = hs_wire \cup {msg}
       /\ i_last' = CallRecord("create_init", i_state.tag, "Ok", TRUE, TRUE)
       /\ hs_clean' = CleanStep(0, TRUE)
       /\ UNCHANGED hs_failed
       /\ UNCHANGED <<r_state, r_cache, r_last, i_accepted, r_accepted>>
       /\ UNCHANGED <<roVars, ruVars, rtVars, ldVars, ccVars, stVars, mxVars, cnVars, fcVars, rttVars, drVars, frVars, micVars, snVars>>

\* Initiator::create_init
CreateInit ==
    IF i_state.tag # "Idle"
    THEN /\ i_last' = CallRecord("create_init", i_state.tag, "InvalidStateTransition", TRUE, TRUE)
         /\ hs_clean' = Disturbed
         /\ UNCHANGED hs_failed
         /\ UNCHANGED <<i_state, r_state, r_cache, hs_wire, r_last, i_accepted, r_accepted>>
         /\ UNCHANGED <<roVars, ruVars, rtVars, ldVars, ccVars, stVars, mxVars, cnVars, fcVars, rttVars, drVars, frVars, micVars, snVars>>
    ELSE LET ephemeral_pub == X25519Public(InitiatorSecret)
             msg == HandshakeInit(ephemeral_pub, MicAlice)
         IN /\ i_state' = [tag |-> "InitSent", ephemeral_secret |-> InitiatorSecret,
                           ephemeral_public |-> ephemeral_pub]
            /\ hs_wire' = hs_wire \cup {msg}
            /\ i_last' = CallRecord("create_init", i_state.tag, "Ok", TRUE, TRUE)
            /\ hs_clean' = CleanStep(0, TRUE)
            /\ UNCHANGED hs_failed
            /\ UNCHANGED <<r_state, r_cache, r_last, i_accepted, r_accepted>>
            /\ UNCHANGED <<roVars, ruVars, rtVars, ldVars, ccVars, stVars, mxVars, cnVars, fcVars, rttVars, drVars, frVars, micVars, snVars>>

\* the result and effects of Initiator::process_response in state InitSent
InitiatorResponseOutcome(state, my_mic, response, now) ==
    LET v == Validate(response.responder_mic, now)
        shared_secret == DiffieHellman(state.ephemeral_secret, response.ephemeral_pub)
        session_keys == DeriveSessionKeys(shared_secret, NodeIdFromMic(my_mic),
                                          NodeIdFromMic(response.responder_mic))
        decrypted == AeadDecrypt(session_keys.server_write_key, HandshakeNonce(2),
                                 response.encrypted_payload, "")
    IN IF v # "Ok" THEN [result |-> v, state |-> state, out |-> NoMsg]
       ELSE IF ~decrypted.ok THEN [result |-> "Decryption", state |-> state, out |-> NoMsg]
       ELSE IF decrypted.plaintext # FINISHED_MSG
            THEN [result |-> "Handshake", state |-> state, out |-> NoMsg]
       ELSE [result |-> "Ok",
             state |-> [tag |-> "Complete",
                        session_key |-> session_keys.client_write_key,
                        peer_mic |-> response.responder_mic,
                        my_mic |-> my_mic,
                        server_write_key |-> session_keys.server_write_key],
             out |-> HandshakeComplete(
                        AeadEncrypt(session_keys.client_write_key, HandshakeNonce(3),
                                    FINISHED_MSG, ""))]

\* Initiator::process_response
ProcessResponse(response, now) ==
    LET mic_ok == MicValidAt(response.responder_mic, now)
        payload_ok == response.encrypted_payload.intact
    IN IF i_state.tag # "InitSent"
       THEN /\ i_last' = CallRecord("process_response", i_state.tag,
                                    "InvalidStateTransition", mic_ok, payload_ok)
            /\ hs_clean' = Disturbed
            /\ UNCHANGED hs_failed
            /\ UNCHANGED <<i_state, r_state, r_cache, hs_wire, r_last, i_accepted, r_accepted>>
            /\ UNCHANGED <<roVars, ruVars, rtVars, ldVars, ccVars, stVars, mxVars, cnVars, fcVars, rttVars, drVars, frVars, micVars, snVars>>
       ELSE LET o == InitiatorResponseOutcome(i_state, MicAlice, response, now)
            IN /\ i_state' = o.state
               /\ hs_wire' = IF o.result = "Ok" THEN hs_wire \cup {o.out} ELSE hs_wire
               /\ i_last' = CallRecord("process_response", i_state.tag, o.result,
                                       mic_ok, payload_ok)
               /\ i_accepted' = IF o.result = "Ok"
                                THEN [response |-> response, now |-> now]
                                ELSE i_accepted
               /\ hs_clean' = CleanStep(2, o.result = "Ok" /\ response \in hs_wire)
               /\ hs_failed' = IF o.result # "Ok" THEN hs_failed \cup {"initiator"} ELSE hs_failed
               /\ UNCHANGED <<r_state, r_cache, r_last, r_accepted>>
               /\ UNCHANGED <<roVars, ruVars, rtVars, ldVars, ccVars, stVars, mxVars, cnVars, fcVars, rttVars, drVars, frVars, micVars, snVars>>

\* a process_init that completes the responder at once, without waiting for
\* the initiator's finished message (used to test the claims)
ResponderInitOutcomeCompletes(state, cache, my_mic, init, now) ==
    LET v == Validate(init.initiator_mic, now)
        ephemeral_pub == X25519Public(ResponderSecret)
        shared_secret == DiffieHellman(ResponderSecret, init.ephemeral_pub)
        session_keys == DeriveSessionKeys(shared_secret, NodeIdFromMic(init.initiator_mic),
                                          NodeIdFromMic(my_mic))
        encrypted_payload == AeadEncrypt(session_keys.server_write_key, HandshakeNonce(2),
                                         FINISHED_MSG, "")
    IN IF v # "Ok" THEN [result |-> v, state |-> state, cache |-> cache, out |-> NoMsg]
       ELSE [result |-> "Ok",
             state |-> [tag |-> "Complete",
                        session_key |-> session_keys.server_write_key,
                        peer_mic |-> init.initiator_mic,
                        server_write_key |-> session_keys.server_write_key],
             cache |-> [some |-> TRUE,
                        client_write_key |-> session_keys.client_write_key,
                        server_write_key |-> session_keys.server_write_key],
             out |-> HandshakeResponse(ephemeral_pub, my_mic, encrypted_payload)]

\* the result and effects of Responder::process_init in state Idle
ResponderInitOutcome(state, cache, my_mic, init, now) ==
    LET v == Validate(init.initiator_mic, now)
        ephemeral_pub == X25519Public(ResponderSecret)
        shared_secret == DiffieHellman(ResponderSecret, init.ephemeral_pub)
        session_keys == DeriveSessionKeys(shared_secret, NodeIdFromMic(init.initiator_mic),
                                          NodeIdFromMic(my_mic))
        encrypted_payload == AeadEncrypt(session_keys.server_write_key, HandshakeNonce(2),
                                         FINISHED_MSG, "")
    IN IF v # "Ok" THEN [result |-> v, state |-> state, cache |-> cache, out |-> NoMsg]
       ELSE [result |-> "Ok",
             state |-> [tag |-> "ResponseReceived",
                        session_key |-> session_keys.server_write_key,
                        peer_mic |-> init.initiator_mic,
                        server_write_key |-> session_keys.server_write_key],
             cache |-> [some |-> TRUE,
                        client_write_key |-> session_keys.client_write_key,
                        server_write_key |-> session_keys.server_write_key],
             out |-> HandshakeResponse(ephemeral_pub, my_mic, encrypted_payload)]

\* Responder::process_init
ProcessInit(init, now) ==
    LET mic_ok == MicValidAt(init.initiator_mic, now)
    IN IF r_state.tag # "Idle"
       THEN /\ r_last' = CallRecord("process_init", r_state.tag, "InvalidStateTransition",
                                    mic_ok, TRUE)
            /\ hs_clean' = Disturbed
            /\ UNCHANGED hs_failed
            /\ UNCHANGED <<i_state, r_state, r_cache, hs_wire, i_last, i_accepted, r_accepted>>
            /\ UNCHANGED <<roVars, ruVars, rtVars, ldVars, ccVars, stVars, mxVars, cnVars, fcVars, rttVars, drVars, frVars, micVars, snVars>>
       ELSE LET o == ResponderInitOutcome(r_state, r_cache, MicBob, init, now)
            IN /\ r_state' = o.state
               /\ r_cache' = o.cache
               /\ hs_wire' = IF o.result = "Ok" THEN hs_wire \cup {o.out} ELSE hs_wire
               /\ r_last' = CallRecord("process_init", r_state.tag, o.result, mic_ok, TRUE)
               /\ r_accepted' = IF o.result = "Ok"
                                THEN [r_accepted EXCEPT !.init = init, !.now = now]
                                ELSE r_accepted
               /\ hs_clean' = CleanStep(1, o.result = "Ok" /\ init \in hs_wire)
               /\ hs_failed' = IF o.result # "Ok" THEN hs_failed \cup {"responder"} ELSE hs_failed
               /\ UNCHANGED <<i_state, i_last, i_accepted>>
               /\ UNCHANGED <<roVars, ruVars, rtVars, ldVars, ccVars, stVars, mxVars, cnVars, fcVars, rttVars, drVars, frVars, micVars, snVars>>

\* the result and effects of Responder::process_complete in state
\* ResponseReceived
ResponderCompleteOutcome(state, cache, my_mic, complete) ==
    IF ~cache.some THEN [result |-> "Handshake", state |-> state]
    ELSE LET decrypted == AeadDecrypt(cache.client_write_key, HandshakeNonce(3),
                                      complete.encrypted_payload, "")
         IN IF ~decrypted.ok THEN [result |-> "Decryption", state |-> state]
            ELSE IF decrypted.plaintext # FINISHED_MSG
                 THEN [result |-> "Handshake", state |-> state]
            ELSE [result |-> "Ok",
                  state |-> [tag |-> "Complete",
                             session_key |-> cache.server_write_key,
                             peer_mic |-> state.peer_mic,
                             my_mic |-> my_mic,
                             server_write_key |-> cache.server_write_key]]

\* Responder::process_complete
ProcessComplete(complete) ==
    LET payload_ok == complete.encrypted_payload.intact
    IN IF r_state.tag # "ResponseReceived"
       THEN /\ r_last' = CallRecord("process_complete", r_state.tag,
                                    "InvalidStateTransition", TRUE, payload_ok)
            /\ hs_clean' = Disturbed
            /\ UNCHANGED hs_failed
            /\ UNCHANGED <<i_state, r_state, r_cache, hs_wire, i_last, i_accepted, r_accepted>>
            /\ UNCHANGED <<roVars, ruVars, rtVars, ldVars, ccVars, stVars, mxVars, cnVars, fcVars, rttVars, drVars, frVars, micVars, snVars>>
       ELSE LET o == ResponderCompleteOutcome(r_state, r_cache, MicBob, complete)
            IN /\ r_state' = o.state
               /\ r_last' = CallRecord("process_complete", r_state.tag, o.result,
                                       TRUE, payload_ok)
               /\ r_accepted' = IF o.result = "Ok"
                                THEN [r_accepted EXCEPT !.complete = complete]
                                ELSE r_accepted
               /\ hs_clean' = CleanStep(3, o.result = "Ok" /\ complete \in hs_wire)
               /\ hs_failed' = IF o.result # "Ok" THEN hs_failed \cup {"responder"} ELSE hs_failed
               /\ UNCHANGED <<i_state, r_cache, hs_wire, i_last, i_accepted>>
               /\ UNCHANGED <<roVars, ruVars, rtVars, ldVars, ccVars, stVars, mxVars, cnVars, fcVars, rttVars, drVars, frVars, micVars, snVars>>

InitHS ==
    /\ i_state = [tag |-> "Idle"]
    /\ r_state = [tag |-> "Idle"]
    /\ r_cache = [some |-> FALSE]
    /\ hs_wire = {}
    /\ i_last = CallRecord("new", "Idle", "Ok", TRUE, TRUE)
    /\ r_last = CallRecord("new", "Idle", "Ok", TRUE, TRUE)
    /\ i_accepted = [response |-> NoMsg, now |-> 0]
    /\ r_accepted = [init |-> NoMsg, complete |-> NoMsg, now |-> 0]
    /\ hs_clean = 0
    /\ hs_failed = {}

NextHS ==
    \/ CreateInit
    \/ \E init \in InitMessages, now \in Nows : ProcessInit(init, now)
    \/ \E response \in ResponseMessages, now \in Nows : ProcessResponse(response, now)
    \/ \E complete \in CompleteMessages : ProcessComplete(complete)

\* the keys a Complete state holds (HandshakeState::Complete.session_key and
\* .server_write_key)
ExposedKeys(state) == {state.session_key, state.server_write_key}

\* C3: after create_init, process_init, process_response and
\* process_complete run in that order with every message delivered
\* unmodified and both MICs valid at now, both roles are Complete and their
\* Complete states expose the same client_write_key and the same
\* server_write_key, together with the peer's MIC.
C3_SameKeysExposed ==
    hs_clean = 4 =>
        /\ i_state.tag = "Complete"
        /\ r_state.tag = "Complete"
        /\ i_state.peer_mic = MicBob
        /\ r_state.peer_mic = MicAlice
        /\ ExposedKeys(i_state) = ExposedKeys(r_state)
        /\ \E k \in ExposedKeys(r_state) : k[1] = "client write key"
        /\ \E k \in ExposedKeys(r_state) : k[1] = "server write key"

\* C4: a role reaches Complete with peer_mic = M only if the handshake
\* messages it accepted were produced by the party that holds the identity
\* key certified by M (the honest Initiator for Alice, the honest Responder
\* for Bob; the attacker holds only Mallory's key).
C4_PeerAuthenticated ==
    /\ r_state.tag = "Complete" =>
          \/ r_state.peer_mic.node_id = Mallory
          \/ /\ r_state.peer_mic.node_id = Alice
             /\ r_accepted.init \in hs_wire
             /\ r_accepted.complete \in hs_wire
    /\ i_state.tag = "Complete" =>
          \/ i_state.peer_mic.node_id = Mallory
          \/ /\ i_state.peer_mic.node_id = Bob
             /\ i_accepted.response \in hs_wire

\* C5: a role is Complete only if the peer MIC it received was valid at the
\* caller's now and the finished payload it received was the untampered
\* encryption of the finished literal under the expected directional key and
\* nonce; a step given an invalid MIC or an altered payload returns an error
\* and does not put the role in Complete.
C5_CompleteOnlyAfterChecks ==
    /\ i_state.tag = "Complete" =>
          /\ MicValidAt(i_accepted.response.responder_mic, i_accepted.now)
          /\ i_state.peer_mic = i_accepted.response.responder_mic
          /\ IsFinishedUnder(i_accepted.response.encrypted_payload,
                             i_state.server_write_key, 2)
    /\ r_state.tag = "Complete" =>
          /\ MicValidAt(r_accepted.init.initiator_mic, r_accepted.now)
          /\ r_state.peer_mic = r_accepted.init.initiator_mic
          /\ IsFinishedUnder(r_accepted.complete.encrypted_payload,
                             r_cache.client_write_key, 3)
    /\ \A last \in {i_last, r_last} :
          (last.op \in {"process_init", "process_response", "process_complete"}
              /\ (~last.mic_ok \/ ~last.payload_ok)) => last.result # "Ok"
    /\ (i_last.result # "Ok" /\ i_state.tag = "Complete") => i_last.from = "Complete"
    /\ (r_last.result # "Ok" /\ r_state.tag = "Complete") => r_last.from = "Complete"

\* the Initiator completed, and the Responder then rejected a tampered
\* client finished while waiting for it
C5_Witness ==
    /\ i_state.tag = "Complete"
    /\ r_state.tag = "ResponseReceived"
    /\ r_last.op = "process_complete"
    /\ r_last.from = "ResponseReceived"
    /\ ~r_last.payload_ok
    /\ r_last.result = "Decryption"

\* ------------------------------------------------------------------------
\* Retransmission engine
\* ------------------------------------------------------------------------

MAX_RETRIES == 3

\* with_max_bytes(max_bytes): the configured in-flight byte limit
MaxBytes == 3

\* payload lengths pushed
Lens == {1, 2}

\* the heap holds at most this many entries in the model
MaxHeap == 2

RTSeqs == {1, 2}

\* initial timeouts passed to push (Duration, in ticks)
RTOs == {0, 1}

\* the instants at which poll_expired is called; Instant::now() in push and
\* the caller's now in poll_expired are readings of one monotonic clock,
\* which the model advances in poll_expired
Times == {0, 1, 3, 7, 15}

\* per-seq counters, all zero
NoSeqs == [s \in RTSeqs |-> 0]

RECURSIVE SumOver(_, _)
SumOver(f, S) ==
    IF S = {} THEN 0
    ELSE LET x == CHOOSE y \in S : TRUE IN f[x] + SumOver(f, S \ {x})

Min2(a, b) == IF a <= b THEN a ELSE b

\* usize::saturating_sub
SaturatingSub(a, b) == IF a >= b THEN a - b ELSE 0

RetransmitEntry(seq, len, retransmit_at, rto, attempts) ==
    [seq |-> seq, len |-> len, retransmit_at |-> retransmit_at, rto |-> rto,
     attempts |-> attempts]

\* a push that rejects when the limit would be reached, not only exceeded
PushOutcomeOffByOne(heap, pending, inflight, max_bytes, now, seq, len, rto) ==
    LET new_inflight == inflight + len
    IN IF new_inflight >= max_bytes
       THEN [result |-> "RetransmitBufferFull", heap |-> heap, pending |-> pending,
             inflight |-> inflight]
       ELSE [result |-> "Ok",
             heap |-> heap (+) SetToBag({RetransmitEntry(seq, len, now + rto, rto, 0)}),
             pending |-> MapInsert(pending, seq, len),
             inflight |-> new_inflight]

\* RetransmissionEngine::push.  inflight_bytes never exceeds max_bytes and
\* the lengths pushed are small, so checked_add never overflows here.
PushOutcome(heap, pending, inflight, max_bytes, now, seq, len, rto) ==
    LET new_inflight == inflight + len
    IN IF new_inflight > max_bytes
       THEN [result |-> "RetransmitBufferFull", heap |-> heap, pending |-> pending,
             inflight |-> inflight]
       ELSE [result |-> "Ok",
             heap |-> heap (+) SetToBag({RetransmitEntry(seq, len, now + rto, rto, 0)}),
             pending |-> MapInsert(pending, seq, len),
             inflight |-> new_inflight]

\* RetransmissionEngine::push; Instant::now() in it reads rt_clock
Push(seq, len, rto) ==
    /\ BagCardinality(rt_heap) < MaxHeap
    /\ LET o == PushOutcome(rt_heap, rt_pending, rt_inflight, rt_max_bytes, rt_clock,
                            seq, len, rto)
       IN /\ rt_heap' = o.heap
          /\ rt_pending' = o.pending
          /\ rt_inflight' = o.inflight
          /\ rt_last' = [op |-> "push", seq |-> seq, len |-> len, result |-> o.result,
                         retx |-> NoSeqs, given |-> NoSeqs, skipped |-> {}]
          /\ rt_emits' = IF o.result = "Ok" THEN [rt_emits EXCEPT ![seq] = 0] ELSE rt_emits
          /\ rt_acked' = IF o.result = "Ok" THEN rt_acked \ {seq} ELSE rt_acked
    /\ UNCHANGED <<rt_max_bytes, rt_clock>>
    /\ UNCHANGED <<roVars, ruVars, hsVars, ldVars, ccVars, stVars, mxVars, cnVars, fcVars, rttVars, drVars, frVars, micVars, snVars>>

\* RetransmissionEngine::on_ack
OnAckOutcome(pending, inflight, seq) ==
    IF seq \in DOMAIN pending
    THEN [result |-> "true", pending |-> MapRemove(pending, seq),
          inflight |-> SaturatingSub(inflight, pending[seq])]
    ELSE [result |-> "false", pending |-> pending, inflight |-> inflight]

OnAck(seq) ==
    /\ LET o == OnAckOutcome(rt_pending, rt_inflight, seq)
       IN /\ rt_pending' = o.pending
          /\ rt_inflight' = o.inflight
          /\ rt_last' = [op |-> "on_ack", seq |-> seq, len |-> 0, result |-> o.result,
                         retx |-> NoSeqs, given |-> NoSeqs, skipped |-> {}]
          /\ rt_acked' = IF o.result = "true" THEN rt_acked \cup {seq} ELSE rt_acked
    /\ UNCHANGED <<rt_heap, rt_max_bytes, rt_clock, rt_emits>>
    /\ UNCHANGED <<roVars, ruVars, hsVars, ldVars, ccVars, stVars, mxVars, cnVars, fcVars, rttVars, drVars, frVars, micVars, snVars>>

\* the state of one poll_expired call: the engine's fields, how many times
\* each seq has been put on the to_retransmit and given_up lists, and the
\* seqs of the stale entries dropped
PollState(heap, pending, inflight, retx, given, skipped) ==
    [heap |-> heap, pending |-> pending, inflight |-> inflight, retx |-> retx,
     given |-> given, skipped |-> skipped]

Bump(counts, seq) == [counts EXCEPT ![seq] = @ + 1]

\* the entries BinaryHeap::peek may return: those with the earliest deadline
\* (the order among equal deadlines is not determined by Ord)
HeapTops(heap) ==
    LET entries == BagToSet(heap)
    IN {e \in entries : \A f \in entries : e.retransmit_at <= f.retransmit_at}

\* one iteration of a poll loop that does not skip entries whose seq is no
\* longer pending
PollIterationNoSkip(st, e, now) ==
    LET popped == st.heap (-) SetToBag({e})
    IN IF e.attempts >= MAX_RETRIES
       THEN LET len == IF e.seq \in DOMAIN st.pending THEN st.pending[e.seq] ELSE 0
            IN PollState(popped, MapRemove(st.pending, e.seq),
                         SaturatingSub(st.inflight, len), st.retx,
                         Bump(st.given, e.seq), st.skipped)
       ELSE LET new_rto == e.rto * 2
            IN PollState(popped (+) SetToBag({RetransmitEntry(
                             e.seq, e.len, now + new_rto, new_rto, e.attempts + 1)}),
                         st.pending, st.inflight, Bump(st.retx, e.seq), st.given,
                         st.skipped)

\* one iteration of a poll loop that re-arms an entry without counting the
\* attempt
PollIterationNoCount(st, e, now) ==
    LET popped == st.heap (-) SetToBag({e})
    IN IF e.seq \notin DOMAIN st.pending
       THEN PollState(popped, st.pending, st.inflight, st.retx, st.given,
                      st.skipped \cup {e.seq})
       ELSE IF e.attempts >= MAX_RETRIES
       THEN LET len == IF e.seq \in DOMAIN st.pending THEN st.pending[e.seq] ELSE 0
            IN PollState(popped, MapRemove(st.pending, e.seq),
                         SaturatingSub(st.inflight, len), st.retx,
                         Bump(st.given, e.seq), st.skipped)
       ELSE LET new_rto == e.rto * 2
            IN PollState(popped (+) SetToBag({RetransmitEntry(
                             e.seq, e.len, now + new_rto, new_rto, e.attempts)}),
                         st.pending, st.inflight, Bump(st.retx, e.seq), st.given,
                         st.skipped)

\* one iteration of the while-let loop of poll_expired, for the popped
\* entry e
PollIteration(st, e, now) ==
    LET popped == st.heap (-) SetToBag({e})
    IN IF e.seq \notin DOMAIN st.pending
       THEN PollState(popped, st.pending, st.inflight, st.retx, st.given,
                      st.skipped \cup {e.seq})
       ELSE IF e.attempts >= MAX_RETRIES
       THEN LET len == IF e.seq \in DOMAIN st.pending THEN st.pending[e.seq] ELSE 0
            IN PollState(popped, MapRemove(st.pending, e.seq),
                         SaturatingSub(st.inflight, len), st.retx,
                         Bump(st.given, e.seq), st.skipped)
       ELSE LET new_rto == e.rto * 2
            IN PollState(popped (+) SetToBag({RetransmitEntry(
                             e.seq, e.len, now + new_rto, new_rto, e.attempts + 1)}),
                         st.pending, st.inflight, Bump(st.retx, e.seq), st.given,
                         st.skipped)

\* the loop of RetransmissionEngine::poll_expired: the set of states it can
\* end in, starting from the set sts of states it can be in
RECURSIVE PollLoop(_, _)
PollLoop(sts, now) ==
    LET due(st) == {e \in HeapTops(st.heap) : e.retransmit_at <= now}
        done == {st \in sts : due(st) = {}}
        next == UNION {{PollIteration(st, e, now) : e \in due(st)} : st \in sts \ done}
    IN IF next = {} THEN done ELSE done \cup PollLoop(next, now)

\* RetransmissionEngine::poll_expired(now), at the current or a later instant
PollExpired(now) ==
    /\ now >= rt_clock
    /\ rt_clock' = now
    /\ \E o \in PollLoop({PollState(rt_heap, rt_pending, rt_inflight, NoSeqs, NoSeqs, {})}, now) :
          /\ rt_heap' = o.heap
          /\ rt_pending' = o.pending
          /\ rt_inflight' = o.inflight
          /\ rt_last' = [op |-> "poll", seq |-> 0, len |-> 0, result |-> "polled",
                         retx |-> o.retx, given |-> o.given, skipped |-> o.skipped]
          /\ rt_emits' = [s \in RTSeqs |-> Min2(rt_emits[s] + o.retx[s], MAX_RETRIES + 1)]
    /\ UNCHANGED <<rt_max_bytes, rt_acked>>
    /\ UNCHANGED <<roVars, ruVars, hsVars, ldVars, ccVars, stVars, mxVars, cnVars, fcVars, rttVars, drVars, frVars, micVars, snVars>>

InitRT ==
    /\ rt_heap = EmptyBag
    /\ rt_pending = EmptyMap
    /\ rt_inflight = 0
    /\ rt_max_bytes = MaxBytes
    /\ rt_clock = 0
    /\ rt_last = [op |-> "new", seq |-> 0, len |-> 0, result |-> "new",
                  retx |-> NoSeqs, given |-> NoSeqs, skipped |-> {}]
    /\ rt_emits = NoSeqs
    /\ rt_acked = {}

NextRT ==
    \/ \E seq \in RTSeqs, len \in Lens, rto \in RTOs : Push(seq, len, rto)
    \/ \E seq \in RTSeqs : OnAck(seq)
    \/ \E now \in Times : PollExpired(now)

PendingBytes == SumOver(rt_pending, DOMAIN rt_pending)

\* C6: after any sequence of push, on_ack and poll_expired calls, including
\* a push of a seq that is already pending, inflight_bytes equals the sum of
\* the payload sizes recorded in the pending map.
C6_InflightEqualsPendingSum == rt_inflight = PendingBytes

C8_ThreeRetransmitsThenGiveUp ==
    [][(rtVars' # rtVars /\ rt_last'.op = "poll") =>
          /\ \A s \in RTSeqs : rt_emits'[s] <= 3
          /\ \A s \in RTSeqs : rt_last'.given[s] > 0 =>
                /\ rt_last'.given[s] = 1
                /\ rt_last'.retx[s] = 0
                /\ rt_emits[s] = 3
                /\ s \notin DOMAIN rt_pending'
          /\ rt_inflight' = rt_inflight
                 - SumOver(rt_pending, {s \in RTSeqs : rt_last'.given[s] > 0})
          /\ (rt_pending' = EmptyMap) => rt_inflight' = 0]_vars

\* C9: after on_ack(seq) has removed a pending packet, no later poll_expired
\* returns that seq in its retransmit list or its given-up list as long as
\* seq is not pushed again; on_ack for a seq that is not pending returns
\* false and changes nothing.
C9_AckedNeverPolled ==
    [][/\ (rtVars' # rtVars /\ rt_last'.op = "poll") =>
             \A s \in rt_acked : rt_last'.retx[s] = 0 /\ rt_last'.given[s] = 0
       /\ (rtVars' # rtVars /\ rt_last'.op = "on_ack") =>
             /\ rt_last'.result = "true" <=> rt_last'.seq \in DOMAIN rt_pending
             /\ rt_last'.seq \notin DOMAIN rt_pending =>
                    UNCHANGED <<rt_heap, rt_pending, rt_inflight>>
             /\ rt_last'.seq \notin DOMAIN rt_pending']_vars

\* a poll dropped the stale heap entry of an acknowledged seq while
\* retransmitting another packet
C9_Witness ==
    /\ rt_last.op = "poll"
    /\ \E s \in rt_acked : s \in rt_last.skipped
    /\ \E s \in RTSeqs : rt_last.retx[s] > 0

\* ------------------------------------------------------------------------
\* Loss detector (nexstream/src/loss_detection.rs)
\* ------------------------------------------------------------------------

PACKET_THRESHOLD == 3

\* Duration::from_millis(1), in nanoseconds
MIN_TIME_THRESHOLD == 1000000

\* Size of the u64 sequence-number space (2^64 in the source), scaled down
\* so that seq + PACKET_THRESHOLD overflows for the three largest seqs.
U64Space == 6

LDSeqs == 0..(U64Space - 1)

\* packets tracked in sent_packets at once
MaxInFlight == 2

\* instants (sent_time, now) and smoothed RTT values, in nanoseconds
LDTimes == {0, 2000000}

Srtts == {0, 2000000}

None == [some |-> FALSE]

Some(v) == [some |-> TRUE, value |-> v]

Max2(a, b) == IF a >= b THEN a ELSE b

\* std::cmp::max(srtt * 9 / 8, MIN_TIME_THRESHOLD)
TimeThreshold(srtt) == Max2((srtt * 9) \div 8, MIN_TIME_THRESHOLD)

\* Instant::duration_since saturates to zero when `earlier` is later
DurationSince(now, earlier) == SaturatingSub(now, earlier)

\* seq + PACKET_THRESHOLD on u64: with overflow checks the addition panics,
\* without them it wraps
OverflowsU64(seq) == seq + PACKET_THRESHOLD >= U64Space

WrappingAddThreshold(seq) == (seq + PACKET_THRESHOLD) % U64Space

LossState(sent, lost, panicked) ==
    [sent |-> sent, lost |-> lost, panicked |-> panicked]

\* the `for seq in seqs` loop of on_ack_received, seqs in ascending key
\* order; a panic abandons the loop and the batch collected so far
RECURSIVE LossLoop(_, _, _, _, _, _)
LossLoop(st, seqs, largest, time_threshold, now, overflow_checks) ==
    IF seqs = {} THEN st
    ELSE LET seq == CHOOSE x \in seqs : \A y \in seqs : x <= y
         IN IF OverflowsU64(seq) /\ overflow_checks
            THEN LossState(st.sent, {}, TRUE)
            ELSE LET packet_lost == largest >= WrappingAddThreshold(seq)
                     time_lost ==
                         IF seq \in DOMAIN st.sent
                         THEN DurationSince(now, st.sent[seq]) > time_threshold
                         ELSE FALSE
                     st2 == IF packet_lost \/ time_lost
                            THEN LossState(MapRemove(st.sent, seq),
                                           st.lost \cup {seq}, FALSE)
                            ELSE st
                 IN LossLoop(st2, seqs \ {seq}, largest, time_threshold, now,
                             overflow_checks)

\* an on_ack_received that returns the lost seqs and leaves them in the sent
\* map (used to test the claims)
OnAckReceivedOutcomeKeepLost(sent, largest_acked, ack_seq, srtt, now, overflow_checks) ==
    LET sent1 == MapRemove(sent, ack_seq)
        largest == IF largest_acked.some
                   THEN Max2(largest_acked.value, ack_seq)
                   ELSE ack_seq
        loop == LossLoop(LossState(sent1, {}, FALSE), DOMAIN sent1, largest,
                         TimeThreshold(srtt), now, overflow_checks)
    IN [sent |-> sent1, largest_acked |-> Some(largest),
        lost |-> loop.lost, panicked |-> loop.panicked]

\* LossDetector::on_ack_received: the state it leaves and what it returns
OnAckReceivedOutcome(sent, largest_acked, ack_seq, srtt, now, overflow_checks) ==
    LET sent1 == MapRemove(sent, ack_seq)
        largest == IF largest_acked.some
                   THEN Max2(largest_acked.value, ack_seq)
                   ELSE ack_seq
        loop == LossLoop(LossState(sent1, {}, FALSE), DOMAIN sent1, largest,
                         TimeThreshold(srtt), now, overflow_checks)
    IN [sent |-> loop.sent, largest_acked |-> Some(largest),
        lost |-> loop.lost, panicked |-> loop.panicked]

LDCall(op, seq, srtt, now, lost, result) ==
    [op |-> op, seq |-> seq, srtt |-> srtt, now |-> now, lost |-> lost,
     result |-> result]

\* LossDetector::on_packet_sent
OnPacketSent(seq, sent_time) ==
    /\ seq \in DOMAIN ld_sent \/ Cardinality(DOMAIN ld_sent) < MaxInFlight
    /\ ld_sent' = MapInsert(ld_sent, seq, sent_time)
    /\ ld_higher' = [ld_higher EXCEPT ![seq] = {}]
    /\ ld_last' = LDCall("on_packet_sent", seq, 0, sent_time, {}, "ok")
    /\ UNCHANGED ld_largest
    /\ UNCHANGED <<roVars, ruVars, hsVars, rtVars, ccVars, stVars, mxVars, cnVars, fcVars, rttVars, drVars, frVars, micVars, snVars>>

\* LossDetector::on_ack_received; overflow_checks is the build's choice for
\* integer overflow (panic or wrap)
OnAckReceived(ack_seq, srtt, now, overflow_checks) ==
    LET o == OnAckReceivedOutcome(ld_sent, ld_largest, ack_seq, srtt, now,
                                  overflow_checks)
    IN /\ ld_sent' = o.sent
       /\ ld_largest' = o.largest_acked
       /\ ld_higher' = [s \in LDSeqs |->
              IF s \notin DOMAIN o.sent THEN {}
              ELSE IF ack_seq > s THEN ld_higher[s] \cup {ack_seq}
              ELSE ld_higher[s]]
       /\ ld_last' = LDCall("on_ack_received", ack_seq, srtt, now, o.lost,
                            IF o.panicked THEN "panic" ELSE "ok")
       /\ UNCHANGED <<roVars, ruVars, hsVars, rtVars, ccVars, stVars, mxVars, cnVars, fcVars, rttVars, drVars, frVars, micVars, snVars>>

\* LossDetector::new
InitLD ==
    /\ ld_sent = EmptyMap
    /\ ld_largest = None
    /\ ld_higher = [s \in LDSeqs |-> {}]
    /\ ld_last = LDCall("new", 0, 0, 0, {}, "ok")

NextLD ==
    \/ \E seq \in LDSeqs, t \in LDTimes : OnPacketSent(seq, t)
    \/ \E a \in LDSeqs, srtt \in Srtts, now \in LDTimes, chk \in BOOLEAN :
           OnAckReceived(a, srtt, now, chk)

\* the higher seqs acknowledged since s was sent, the running call included
HigherAckedWith(s, ack_seq) ==
    ld_higher[s] \cup (IF ack_seq > s THEN {ack_seq} ELSE {})

\* C10: for a seq s still in the sent map, if at least 3 higher seqs have
\* been acknowledged after s was sent, or an acknowledgement is processed at
\* a time now with now - sent_at(s) > max(srtt*9/8, 1 ms), then s is in the
\* loss batch returned by that on_ack_received call and is removed from the
\* sent map.
C10_LostWhenThresholdMet ==
    [][(ldVars' # ldVars /\ ld_last'.op = "on_ack_received") =>
          \A s \in DOMAIN ld_sent :
              (\/ Cardinality(HigherAckedWith(s, ld_last'.seq)) >= 3
               \/ ld_last'.now - ld_sent[s] >
                      (IF ld_last'.srtt * 9 >= 8 * 1000000
                       THEN (ld_last'.srtt * 9) \div 8 ELSE 1000000))
              => /\ ld_last'.result = "ok"
                 /\ s \in ld_last'.lost
                 /\ s \notin DOMAIN ld_sent']_vars

\* ------------------------------------------------------------------------
\* CUBIC congestion controller (nexstream/src/congestion/cubic.rs)
\* ------------------------------------------------------------------------

MSS == 1200

INITIAL_WINDOW == 10 * MSS

MIN_WINDOW == 2 * MSS

\* 1024 * 1024 * 1024
MAX_CWND == 1073741824

\* usize::MAX (2^64 - 1 in the source), scaled to the largest integer the
\* model represents; it stays above MAX_CWND
UsizeMax == 2147483647

\* calls made on one controller in the model
MaxCalls == 6

\* byte counts passed to on_packet_sent, on_ack and on_loss
CCBytes == {0, MSS, UsizeMax}

\* values of cubic_window(t): the f64 cubic C*(t-K)^3 + w_max at the elapsed
\* time read from Instant::now(), from below every window up to a value the
\* cast to usize saturates on
HugeWindow == UsizeMax

WCubics == {0, 4 * MSS, HugeWindow}

\* usize::saturating_add
SaturatingAdd(a, b) == IF b > UsizeMax - a THEN UsizeMax ELSE a + b

\* a + b on usize overflows
OverflowsUsize(a, b) == b > UsizeMax - a

\* a + b on usize without overflow checks
WrappingAddUsize(a, b) == IF b > UsizeMax - a THEN a - (UsizeMax - b) - 1 ELSE a + b

\* the largest power of two not above n (n >= 1)
RECURSIVE PowerOfTwoBelow(_, _)
PowerOfTwoBelow(n, p) == IF 2 * p > n THEN p ELSE PowerOfTwoBelow(n, 2 * p)

\* (cwnd as f64 * BETA) as usize with BETA = 0.7: the f64 nearest to 0.7 is
\* 0.7 - 0.4 * 2^-53, so when 7*cwnd/10 is an integer N the rounded product
\* is N only if 4N/7 does not exceed half the spacing of doubles below N,
\* and otherwise the double just below N, which truncates to N - 1
BetaTimes(cwnd) ==
    LET exact == (cwnd \div 10) * 7 + ((cwnd % 10) * 7) \div 10
    IN IF cwnd % 10 = 0 /\ exact > 0 /\ 4 * (exact \div 7) > PowerOfTwoBelow(exact, 1)
       THEN exact - 1
       ELSE exact

\* ((target - cwnd as f64) / (cwnd as f64 / MSS as f64)).max(0.0) as usize
\* for target >= cwnd: the values the two rounded divisions can truncate to
CubicIncreases(target, cwnd) ==
    IF target = HugeWindow THEN {UsizeMax}
    ELSE LET d == target - cwnd
             q == (d * MSS) \div cwnd
         IN IF (d * MSS) % cwnd = 0 /\ q > 0 THEN {q, q - 1} ELSE {q}

CubicState(cwnd, ssthresh, w_max, epoch_start, in_flight, ack_accum, panicked) ==
    [cwnd |-> cwnd, ssthresh |-> ssthresh, w_max |-> w_max,
     epoch_start |-> epoch_start, in_flight |-> in_flight,
     ack_accum |-> ack_accum, panicked |-> panicked]

\* Cubic::in_slow_start
InSlowStart(cwnd, ssthresh) == cwnd < ssthresh

\* Cubic::on_packet_sent: in_flight += bytes panics on overflow in a build
\* with overflow checks and wraps otherwise
CubicOnPacketSent(st, bytes, overflow_checks) ==
    IF OverflowsUsize(st.in_flight, bytes) /\ overflow_checks
    THEN [st EXCEPT !.panicked = TRUE]
    ELSE [st EXCEPT !.in_flight = WrappingAddUsize(st.in_flight, bytes)]

\* Cubic::on_ack, slow-start branch (in_flight already debited)
CubicSlowStartAck(st) ==
    LET cwnd == Min2(SaturatingAdd(st.cwnd, MSS), MAX_CWND)
    IN [st EXCEPT !.cwnd = cwnd,
                  !.epoch_start = IF cwnd >= st.ssthresh THEN TRUE ELSE @]

\* Cubic::on_ack, congestion-avoidance branch (in_flight already debited):
\* the states it can leave
CubicAvoidanceAck(st, bytes, w_cubic, overflow_checks) ==
    LET st1 == IF st.epoch_start THEN st
               ELSE [st EXCEPT !.epoch_start = TRUE, !.ack_accum = 0]
        target == Max2(w_cubic, st1.cwnd)
    IN IF OverflowsUsize(st1.ack_accum, bytes) /\ overflow_checks
       THEN {[st1 EXCEPT !.panicked = TRUE]}
       ELSE LET accum == WrappingAddUsize(st1.ack_accum, bytes)
            IN IF accum >= st1.cwnd
               THEN {[st1 EXCEPT !.cwnd = Min2(SaturatingAdd(st1.cwnd, Max2(increase, 1)),
                                               MAX_CWND),
                                 !.ack_accum = 0] :
                        increase \in CubicIncreases(target, st1.cwnd)}
               ELSE {[st1 EXCEPT !.ack_accum = accum]}

\* Cubic::on_ack
CubicOnAck(st, bytes, w_cubic, overflow_checks) ==
    LET st1 == [st EXCEPT !.in_flight = SaturatingSub(st.in_flight, bytes)]
    IN IF InSlowStart(st1.cwnd, st1.ssthresh)
       THEN {CubicSlowStartAck(st1)}
       ELSE CubicAvoidanceAck(st1, bytes, w_cubic, overflow_checks)

\* an on_loss that applies BETA without the MIN_WINDOW floor
CubicOnLossNoFloor(st, bytes) ==
    [st EXCEPT !.in_flight = SaturatingSub(st.in_flight, bytes),
               !.w_max = st.cwnd,
               !.ssthresh = BetaTimes(st.cwnd),
               !.cwnd = BetaTimes(st.cwnd),
               !.epoch_start = FALSE,
               !.ack_accum = 0]

\* Cubic::on_loss
CubicOnLoss(st, bytes) ==
    [st EXCEPT !.in_flight = SaturatingSub(st.in_flight, bytes),
               !.w_max = st.cwnd,
               !.ssthresh = Max2(BetaTimes(st.cwnd), MIN_WINDOW),
               !.cwnd = Max2(BetaTimes(st.cwnd), MIN_WINDOW),
               !.epoch_start = FALSE,
               !.ack_accum = 0]

\* the controller's fields as one record
CubicNow ==
    CubicState(cc_cwnd, cc_ssthresh, cc_w_max, cc_epoch_start, cc_in_flight,
               cc_ack_accum, FALSE)

\* the controller's fields after a call, and the record of that call
CubicBecomes(st, op, bytes) ==
    /\ cc_calls' = cc_calls + 1
    /\ cc_cwnd' = st.cwnd
    /\ cc_ssthresh' = st.ssthresh
    /\ cc_w_max' = st.w_max
    /\ cc_epoch_start' = st.epoch_start
    /\ cc_in_flight' = st.in_flight
    /\ cc_ack_accum' = st.ack_accum
    /\ cc_last' = [op |-> op, bytes |-> bytes, in_flight_before |-> cc_in_flight,
                   result |-> IF st.panicked THEN "panic" ELSE "ok"]
    /\ UNCHANGED <<roVars, ruVars, hsVars, rtVars, ldVars, stVars, mxVars, cnVars, fcVars, rttVars, drVars, frVars, micVars, snVars>>

CCOnPacketSent(bytes, overflow_checks) ==
    /\ cc_calls < MaxCalls
    /\ CubicBecomes(CubicOnPacketSent(CubicNow, bytes, overflow_checks),
                    "on_packet_sent", bytes)

CCOnAck(bytes, w_cubic, overflow_checks) ==
    /\ cc_calls < MaxCalls
    /\ \E st \in CubicOnAck(CubicNow, bytes, w_cubic, overflow_checks) :
           CubicBecomes(st, "on_ack", bytes)

CCOnLoss(bytes) ==
    /\ cc_calls < MaxCalls
    /\ CubicBecomes(CubicOnLoss(CubicNow, bytes), "on_loss", bytes)

\* Cubic::new
InitCC ==
    /\ cc_cwnd = INITIAL_WINDOW
    /\ cc_ssthresh = UsizeMax
    /\ cc_w_max = 0
    /\ cc_epoch_start = FALSE
    /\ cc_in_flight = 0
    /\ cc_ack_accum = 0
    /\ cc_last = [op |-> "new", bytes |-> 0, in_flight_before |-> 0, result |-> "ok"]
    /\ cc_calls = 0

NextCC ==
    \/ \E bytes \in CCBytes, chk \in BOOLEAN : CCOnPacketSent(bytes, chk)
    \/ \E bytes \in CCBytes, w \in WCubics, chk \in BOOLEAN : CCOnAck(bytes, w, chk)
    \/ \E bytes \in CCBytes : CCOnLoss(bytes)

\* C11: for every sequence of on_packet_sent, on_ack and on_loss calls the
\* congestion window stays within [MIN_WINDOW, MAX_CWND] = [2*MSS, 1 GiB],
\* in_flight never goes below 0, and acknowledging or losing at least as
\* many bytes as are in flight leaves in_flight at 0.
C11_WindowWithinBounds ==
    /\ 2 * 1200 <= cc_cwnd /\ cc_cwnd <= 1024 * 1024 * 1024 /\ cc_in_flight >= 0
    /\ [][/\ 2 * 1200 <= cc_cwnd' /\ cc_cwnd' <= 1024 * 1024 * 1024
          /\ cc_in_flight' >= 0
          /\ (ccVars' # ccVars /\ cc_last'.op \in {"on_ack", "on_loss"}) =>
                /\ cc_last'.bytes >= cc_in_flight => cc_in_flight' = 0
                /\ cc_last'.bytes < cc_in_flight =>
                       cc_in_flight' = cc_in_flight - cc_last'.bytes]_vars

\* repeated losses brought the window down to the floor: the last call was
\* an on_loss of more bytes than were in flight, at a window W with
\* 0.7*W below MIN_WINDOW
C11_Witness ==
    /\ cc_last.op = "on_loss"
    /\ cc_last.in_flight_before > 0
    /\ cc_last.bytes > cc_last.in_flight_before
    /\ cc_in_flight = 0
    /\ cc_cwnd = 2 * 1200
    /\ 7 * cc_w_max < 10 * 2 * 1200

\* ------------------------------------------------------------------------
\* Stream (strandstream/src/stream.rs) with its per-mode sender / receiver
\* ------------------------------------------------------------------------

StreamStates == {"Idle", "Open", "HalfClosedLocal", "HalfClosedRemote", "Closed"}

\* the modes whose sender and receiver are in the source tree
TransportModes == {"ReliableOrdered", "ReliableUnordered", "BestEffort"}

\* payloads a stream sends before the model stops sending
MaxStreamSends == 2

\* payloads the application receive queue holds before the model stops
\* enqueueing
MaxRecvBuf == 2

\* seq numbers that may be acknowledged
FrameSeqs == {0, 1}

\* seq numbers of the inbound DATA frames
InboundSeqs == {0}

FrameData(stream_id, seq, payload) ==
    [type |-> "Data", stream_id |-> stream_id, seq |-> seq, flags |-> 0, payload |-> payload]

FrameFin(stream_id) == [type |-> "Fin", stream_id |-> stream_id]

FrameRst(stream_id) == [type |-> "Rst", stream_id |-> stream_id]

\* BTreeMap::values(): the values in ascending key order
RECURSIVE MapValues(_)
MapValues(m) ==
    IF DOMAIN m = {} THEN << >>
    ELSE LET k == CHOOSE x \in DOMAIN m : \A y \in DOMAIN m : x <= y
         IN <<m[k]>> \o MapValues(MapRemove(m, k))

\* ReliableOrderedSender::new / ReliableUnorderedSender::new /
\* BestEffortSender::new
SenderNew(mode) ==
    IF mode = "BestEffort"
    THEN [next_seq |-> 0, cwnd |-> None]
    ELSE [next_seq |-> 0, send_buffer |-> EmptyMap]

\* BestEffortSender::window_open
WindowOpen(sender) == ~(sender.cwnd.some /\ sender.cwnd.value = 0)

\* a send whose Best-Effort drop uses up a seq (used to test the claims)
SenderSendDropTakesSeq(mode, sender, stream_id, data) ==
    LET seq == sender.next_seq
        frame == FrameData(stream_id, seq, data)
    IN IF mode = "BestEffort"
       THEN [sender |-> [sender EXCEPT !.next_seq = WrappingAdd1(seq)],
             frames |-> IF WindowOpen(sender) THEN <<frame>> ELSE << >>]
       ELSE [sender |-> [next_seq |-> WrappingAdd1(seq),
                         send_buffer |-> MapInsert(sender.send_buffer, seq, frame)],
             frames |-> <<frame>>]

\* TransportSender::send of the three modes
SenderSend(mode, sender, stream_id, data) ==
    LET seq == sender.next_seq
        frame == FrameData(stream_id, seq, data)
    IN IF mode = "BestEffort"
       THEN IF ~WindowOpen(sender)
            THEN [sender |-> sender, frames |-> << >>]
            ELSE [sender |-> [sender EXCEPT !.next_seq = WrappingAdd1(seq)],
                  frames |-> <<frame>>]
       ELSE [sender |-> [next_seq |-> WrappingAdd1(seq),
                         send_buffer |-> MapInsert(sender.send_buffer, seq, frame)],
             frames |-> <<frame>>]

\* TransportSender::on_ack
SenderOnAck(mode, sender, seq) ==
    IF mode = "BestEffort" THEN sender
    ELSE [sender EXCEPT !.send_buffer = MapRemove(@, seq)]

\* TransportSender::retransmit
SenderRetransmit(mode, sender) ==
    IF mode = "BestEffort" THEN << >> ELSE MapValues(sender.send_buffer)

\* ReliableOrderedReceiver::new / ReliableUnorderedReceiver::new /
\* BestEffortReceiver::new
ReceiverNew(mode) ==
    CASE mode = "ReliableOrdered" -> [expected_seq |-> 0, recv_buffer |-> EmptyMap]
      [] mode = "ReliableUnordered" -> [delivered |-> {}]
      [] OTHER -> [unit |-> TRUE]

\* TransportReceiver::receive of the three modes
ReceiverReceive(mode, receiver, frame) ==
    IF frame.type # "Data"
    THEN [receiver |-> receiver, result |-> "Internal", payloads |-> << >>]
    ELSE CASE mode = "ReliableOrdered" ->
                LET r == ROReceiverReceive(receiver.expected_seq, receiver.recv_buffer, frame)
                IN [receiver |-> [expected_seq |-> r.expected_seq,
                                  recv_buffer |-> r.recv_buffer],
                    result |-> "Ok", payloads |-> r.delivered]
           [] mode = "ReliableUnordered" ->
                LET r == RUReceiverReceive(receiver.delivered, frame)
                IN [receiver |-> [delivered |-> r.delivered],
                    result |-> "Ok", payloads |-> r.out]
           [] OTHER ->
                [receiver |-> receiver, result |-> "Ok", payloads |-> <<frame.payload>>]

\* Stream::new
StreamNew(id, mode) ==
    [id |-> id, mode |-> mode, state |-> "Idle",
     sender |-> SenderNew(mode), receiver |-> ReceiverNew(mode),
     pending_frames |-> << >>, recv_buf |-> << >>]

\* the outcome of a call: the stream afterwards, Ok or the error, and the
\* value returned with Ok
Outcome(stream, result, out) == [stream |-> stream, result |-> result, out |-> out]

\* an open that succeeds in every state (used to test the claims)
StreamOpenAnyState(s) == Outcome([s EXCEPT !.state = "Open"], "Ok", None)

\* Stream::open
StreamOpen(s) ==
    IF s.state = "Idle"
    THEN Outcome([s EXCEPT !.state = "Open"], "Ok", None)
    ELSE Outcome(s, "InvalidStateTransition", None)

\* a send that queues the frames whatever the state
StreamSendAnyState(s, data) ==
    LET r == SenderSend(s.mode, s.sender, s.id, data)
    IN Outcome([s EXCEPT !.sender = r.sender,
                         !.pending_frames = @ \o r.frames], "Ok", None)

\* Stream::send
StreamSend(s, data) ==
    CASE s.state \in {"Open", "HalfClosedRemote"} ->
            LET r == SenderSend(s.mode, s.sender, s.id, data)
            IN Outcome([s EXCEPT !.sender = r.sender,
                                 !.pending_frames = @ \o r.frames], "Ok", None)
      [] s.state \in {"HalfClosedLocal", "Closed"} -> Outcome(s, "StreamClosed", None)
      [] OTHER -> Outcome(s, "InvalidStateTransition", None)

\* a recv that takes the newest payload (pop_back)
StreamRecvNewest(s) ==
    IF s.state = "Idle" THEN Outcome(s, "InvalidStateTransition", None)
    ELSE IF s.recv_buf # << >>
         THEN Outcome([s EXCEPT !.recv_buf = SubSeq(@, 1, Len(@) - 1)], "Ok",
                      Some(s.recv_buf[Len(s.recv_buf)]))
         ELSE IF s.state = "Closed" THEN Outcome(s, "StreamClosed", None)
              ELSE Outcome(s, "Ok", None)

\* Stream::recv
StreamRecv(s) ==
    CASE s.state \in {"Open", "HalfClosedLocal"} ->
            IF s.recv_buf # << >>
            THEN Outcome([s EXCEPT !.recv_buf = Tail(@)], "Ok", Some(Head(s.recv_buf)))
            ELSE Outcome(s, "Ok", None)
      [] s.state \in {"HalfClosedRemote", "Closed"} ->
            IF s.recv_buf # << >>
            THEN Outcome([s EXCEPT !.recv_buf = Tail(@)], "Ok", Some(Head(s.recv_buf)))
            ELSE IF s.state = "Closed"
                 THEN Outcome(s, "StreamClosed", None)
                 ELSE Outcome(s, "Ok", None)
      [] OTHER -> Outcome(s, "InvalidStateTransition", None)

\* Stream::transport_receive
StreamTransportReceive(s, frame) ==
    LET r == ReceiverReceive(s.mode, s.receiver, frame)
    IN IF r.result # "Ok" THEN Outcome(s, r.result, None)
       ELSE Outcome([s EXCEPT !.receiver = r.receiver,
                              !.recv_buf = @ \o r.payloads], "Ok", None)

\* Stream::push_recv
StreamPushRecv(s, data) ==
    Outcome([s EXCEPT !.recv_buf = Append(@, data)], "Ok", None)

\* Stream::drain_frames
StreamDrainFrames(s) ==
    Outcome([s EXCEPT !.pending_frames = << >>], "Ok", s.pending_frames)

\* Stream::drain_send: every pending frame is a DATA frame
StreamDrainSend(s) ==
    Outcome([s EXCEPT !.pending_frames = << >>], "Ok",
            [i \in 1..Len(s.pending_frames) |-> s.pending_frames[i].payload])

\* Stream::on_ack
StreamOnAck(s, seq) ==
    Outcome([s EXCEPT !.sender = SenderOnAck(s.mode, @, seq)], "Ok", None)

\* Stream::retransmit
StreamRetransmit(s) == Outcome(s, "Ok", SenderRetransmit(s.mode, s.sender))

\* a close that moves every state but Idle to Closed
StreamCloseBothSides(s) ==
    IF s.state = "Idle" THEN Outcome(s, "InvalidStateTransition", None)
    ELSE Outcome([s EXCEPT !.state = "Closed"], "Ok", None)

\* Stream::close
StreamClose(s) ==
    CASE s.state = "Open" -> Outcome([s EXCEPT !.state = "HalfClosedLocal"], "Ok", None)
      [] s.state = "HalfClosedRemote" -> Outcome([s EXCEPT !.state = "Closed"], "Ok", None)
      [] s.state \in {"Closed", "HalfClosedLocal"} -> Outcome(s, "Ok", None)
      [] OTHER -> Outcome(s, "InvalidStateTransition", None)

\* Stream::remote_close
StreamRemoteClose(s) ==
    CASE s.state = "Open" -> Outcome([s EXCEPT !.state = "HalfClosedRemote"], "Ok", None)
      [] s.state = "HalfClosedLocal" -> Outcome([s EXCEPT !.state = "Closed"], "Ok", None)
      [] OTHER -> Outcome(s, "Ok", None)

\* Stream::reset
StreamReset(s) ==
    Outcome([s EXCEPT !.state = "Closed", !.pending_frames = << >>,
                      !.recv_buf = << >>], "Ok", None)

\* the record of a call: the operation, its argument, Ok or the error, the
\* value returned
STCall(op, arg, r) == [op |-> op, arg |-> arg, result |-> r.result, out |-> r.out]

\* Stream::open
STOpen ==
    /\ LET r == StreamOpen(st_stream)
       IN /\ st_stream' = r.stream
          /\ st_last' = STCall("open", None, r)
    /\ UNCHANGED st_hist
    /\ UNCHANGED <<roVars, ruVars, hsVars, rtVars, ldVars, ccVars, mxVars, cnVars, fcVars, rttVars, drVars, frVars, micVars, snVars>>

\* Stream::send
STSend(data) ==
    /\ st_stream.sender.next_seq < MaxStreamSends
    /\ LET r == StreamSend(st_stream, data)
       IN /\ st_stream' = r.stream
          /\ st_last' = STCall("send", Some(data), r)
    /\ UNCHANGED st_hist
    /\ UNCHANGED <<roVars, ruVars, hsVars, rtVars, ldVars, ccVars, mxVars, cnVars, fcVars, rttVars, drVars, frVars, micVars, snVars>>

\* Stream::recv
STRecv ==
    /\ LET r == StreamRecv(st_stream)
       IN /\ st_stream' = r.stream
          /\ st_last' = STCall("recv", None, r)
    /\ UNCHANGED st_hist
    /\ UNCHANGED <<roVars, ruVars, hsVars, rtVars, ldVars, ccVars, mxVars, cnVars, fcVars, rttVars, drVars, frVars, micVars, snVars>>

\* Stream::transport_receive
STTransportReceive(frame) ==
    /\ LET r == StreamTransportReceive(st_stream, frame)
       IN /\ Len(r.stream.recv_buf) <= MaxRecvBuf
          /\ st_stream' = r.stream
          /\ st_last' = STCall("transport_receive", Some(frame), r)
    /\ UNCHANGED st_hist
    /\ UNCHANGED <<roVars, ruVars, hsVars, rtVars, ldVars, ccVars, mxVars, cnVars, fcVars, rttVars, drVars, frVars, micVars, snVars>>

\* Stream::push_recv
STPushRecv(data) ==
    /\ Len(st_stream.recv_buf) < MaxRecvBuf
    /\ LET r == StreamPushRecv(st_stream, data)
       IN /\ st_stream' = r.stream
          /\ st_last' = STCall("push_recv", Some(data), r)
    /\ UNCHANGED st_hist
    /\ UNCHANGED <<roVars, ruVars, hsVars, rtVars, ldVars, ccVars, mxVars, cnVars, fcVars, rttVars, drVars, frVars, micVars, snVars>>

\* Stream::drain_frames
STDrainFrames ==
    /\ LET r == StreamDrainFrames(st_stream)
       IN /\ st_stream' = r.stream
          /\ st_last' = STCall("drain_frames", None, r)
    /\ UNCHANGED st_hist
    /\ UNCHANGED <<roVars, ruVars, hsVars, rtVars, ldVars, ccVars, mxVars, cnVars, fcVars, rttVars, drVars, frVars, micVars, snVars>>

\* Stream::drain_send
STDrainSend ==
    /\ LET r == StreamDrainSend(st_stream)
       IN /\ st_stream' = r.stream
          /\ st_last' = STCall("drain_send", None, r)
    /\ UNCHANGED st_hist
    /\ UNCHANGED <<roVars, ruVars, hsVars, rtVars, ldVars, ccVars, mxVars, cnVars, fcVars, rttVars, drVars, frVars, micVars, snVars>>

\* Stream::on_ack
STOnAck(seq) ==
    /\ LET r == StreamOnAck(st_stream, seq)
       IN /\ st_stream' = r.stream
          /\ st_last' = STCall("on_ack", Some(seq), r)
    /\ UNCHANGED st_hist
    /\ UNCHANGED <<roVars, ruVars, hsVars, rtVars, ldVars, ccVars, mxVars, cnVars, fcVars, rttVars, drVars, frVars, micVars, snVars>>

\* Stream::retransmit
STRetransmit ==
    /\ LET r == StreamRetransmit(st_stream)
       IN /\ st_stream' = r.stream
          /\ st_last' = STCall("retransmit", None, r)
    /\ UNCHANGED st_hist
    /\ UNCHANGED <<roVars, ruVars, hsVars, rtVars, ldVars, ccVars, mxVars, cnVars, fcVars, rttVars, drVars, frVars, micVars, snVars>>

\* Stream::close; the call counts as made once the stream has been opened
STClose ==
    /\ LET r == StreamClose(st_stream)
       IN /\ st_stream' = r.stream
          /\ st_last' = STCall("close", None, r)
    /\ st_hist' = IF st_stream.state = "Idle" THEN st_hist
                  ELSE [st_hist EXCEPT !.close = TRUE]
    /\ UNCHANGED <<roVars, ruVars, hsVars, rtVars, ldVars, ccVars, mxVars, cnVars, fcVars, rttVars, drVars, frVars, micVars, snVars>>

\* Stream::remote_close
STRemoteClose ==
    /\ LET r == StreamRemoteClose(st_stream)
       IN /\ st_stream' = r.stream
          /\ st_last' = STCall("remote_close", None, r)
    /\ st_hist' = IF st_stream.state = "Idle" THEN st_hist
                  ELSE [st_hist EXCEPT !.remote_close = TRUE]
    /\ UNCHANGED <<roVars, ruVars, hsVars, rtVars, ldVars, ccVars, mxVars, cnVars, fcVars, rttVars, drVars, frVars, micVars, snVars>>

\* Stream::reset
STReset ==
    /\ LET r == StreamReset(st_stream)
       IN /\ st_stream' = r.stream
          /\ st_last' = STCall("reset", None, r)
    /\ st_hist' = [st_hist EXCEPT !.reset = TRUE]
    /\ UNCHANGED <<roVars, ruVars, hsVars, rtVars, ldVars, ccVars, mxVars, cnVars, fcVars, rttVars, drVars, frVars, micVars, snVars>>

\* Stream::new(id, mode): a fresh stream takes the place of the old one
STNew(mode) ==
    /\ st_stream' = StreamNew(StreamId, mode)
    /\ st_last' = [op |-> "new", arg |-> Some(mode), result |-> "Ok", out |-> None]
    /\ st_hist' = [close |-> FALSE, remote_close |-> FALSE, reset |-> FALSE]
    /\ UNCHANGED <<roVars, ruVars, hsVars, rtVars, ldVars, ccVars, mxVars, cnVars, fcVars, rttVars, drVars, frVars, micVars, snVars>>

\* Stream::new(1, TransportMode::ReliableOrdered)
InitST ==
    /\ st_stream = StreamNew(StreamId, "ReliableOrdered")
    /\ st_last = [op |-> "new", arg |-> Some("ReliableOrdered"), result |-> "Ok", out |-> None]
    /\ st_hist = [close |-> FALSE, remote_close |-> FALSE, reset |-> FALSE]

\* the payloads the application sends
SendData == {"A"}

\* the frames that may arrive for the stream: one DATA frame per seq, and a
\* frame that is not a DATA frame
STFrames ==
    {FrameData(StreamId, seq, RUPayloadOf(seq)) : seq \in InboundSeqs} \cup {FrameFin(StreamId)}

NextST ==
    \/ \E mode \in TransportModes : STNew(mode)
    \/ STOpen
    \/ \E data \in SendData : STSend(data)
    \/ STRecv
    \/ \E frame \in STFrames : STTransportReceive(frame)
    \/ \E data \in Payloads : STPushRecv(data)
    \/ STDrainFrames
    \/ STDrainSend
    \/ \E seq \in FrameSeqs : STOnAck(seq)
    \/ STRetransmit
    \/ STClose
    \/ STRemoteClose
    \/ STReset


\* the state the close() / remote_close() calls made so far lead to from Open
StateAfterCloses(closed, remote_closed) ==
    CASE closed /\ remote_closed -> "Closed"
      [] closed /\ ~remote_closed -> "HalfClosedLocal"
      [] ~closed /\ remote_closed -> "HalfClosedRemote"
      [] OTHER -> "Open"

\* C12: once opened and as long as reset() has not been called, the state is
\* Open if neither close() nor remote_close() has been called,
\* HalfClosedLocal if only close() has, HalfClosedRemote if only
\* remote_close() has, Closed exactly when both have; a repeated close()
\* returns Ok and changes nothing, remote_close() in Idle, HalfClosedRemote or
\* Closed changes nothing, close() in Idle fails with InvalidStateTransition
\* and leaves the stream Idle.
C12_CloseStateMachine ==
    /\ (st_stream.state # "Idle" /\ ~st_hist.reset) =>
          st_stream.state = StateAfterCloses(st_hist.close, st_hist.remote_close)
    /\ st_hist.close => StreamClose(st_stream) = Outcome(st_stream, "Ok", None)
    /\ st_stream.state \in {"Idle", "HalfClosedRemote", "Closed"} =>
          StreamRemoteClose(st_stream).stream = st_stream
    /\ st_stream.state = "Idle" =>
          StreamClose(st_stream) = Outcome(st_stream, "InvalidStateTransition", None)
    /\ (st_last.op = "close" /\ st_last.result # "Ok") =>
          st_last.result = "InvalidStateTransition" /\ st_stream.state = "Idle"

\* a Reliable-Unordered stream was closed by remote_close() and then
\* close(), without a reset
C12_Witness ==
    /\ st_stream.state = "Closed"
    /\ st_hist = [close |-> TRUE, remote_close |-> TRUE, reset |-> FALSE]
    /\ st_last.op = "close"
    /\ st_last.result = "Ok"
    /\ st_stream.mode = "ReliableUnordered"

\* Stream::send of nexstream/src/stream.rs, which queues the payload itself:
\* the state, the outbound queue and the error
NexStreamSend(state, send_buf, data) ==
    CASE state \in {"Open", "HalfClosedRemote"} ->
            [send_buf |-> Append(send_buf, data), result |-> "Ok"]
      [] state \in {"HalfClosedLocal", "Closed"} ->
            [send_buf |-> send_buf, result |-> "StreamClosed"]
      [] OTHER -> [send_buf |-> send_buf, result |-> "InvalidStateTransition"]

\* the payloads of a sequence of DATA frames
PayloadsOf(frames) == [i \in 1..Len(frames) |-> frames[i].payload]

\* C13: in every reachable state, send(data) returns Ok exactly in Open and
\* HalfClosedRemote and then appends to the pending frames exactly the frames
\* the mode's sender produced; in HalfClosedLocal and Closed it fails with
\* StreamClosed, in Idle with InvalidStateTransition, and a failed send
\* leaves the stream (state, pending frames, sender's next seq) as it was.
C13_SendOnlyWhenOpenForSending ==
    /\ \A data \in Payloads :
          LET r == StreamSend(st_stream, data)
              sent == SenderSend(st_stream.mode, st_stream.sender, st_stream.id, data)
              n == NexStreamSend(st_stream.state, PayloadsOf(st_stream.pending_frames), data)
          IN /\ r.result = "Ok" <=> st_stream.state \in {"Open", "HalfClosedRemote"}
             /\ r.result = "Ok" =>
                   /\ r.stream.pending_frames = st_stream.pending_frames \o sent.frames
                   /\ sent.frames = <<FrameData(st_stream.id, st_stream.sender.next_seq, data)>>
                   /\ r.stream.sender.next_seq = WrappingAdd1(st_stream.sender.next_seq)
                   /\ r.stream.state = st_stream.state
             /\ st_stream.state \in {"HalfClosedLocal", "Closed"} => r.result = "StreamClosed"
             /\ st_stream.state = "Idle" => r.result = "InvalidStateTransition"
             /\ r.result # "Ok" =>
                   /\ r.stream.state = st_stream.state
                   /\ r.stream.pending_frames = st_stream.pending_frames
                   /\ r.stream.sender.next_seq = st_stream.sender.next_seq
             /\ n.result = r.result
             /\ n.send_buf = PayloadsOf(r.stream.pending_frames)
    /\ st_last.op = "send" =>
          /\ st_last.result = "Ok" => st_stream.state \in {"Open", "HalfClosedRemote"}
          /\ st_last.result = "StreamClosed" => st_stream.state \in {"HalfClosedLocal", "Closed"}
          /\ st_last.result = "InvalidStateTransition" => st_stream.state = "Idle"

\* a send failed with StreamClosed on a half-closed stream that had sent one
\* payload before: the frame of that payload is still pending and the next
\* seq is still 1
C13_Witness ==
    /\ st_last.op = "send"
    /\ st_last.result = "StreamClosed"
    /\ st_stream.state = "HalfClosedLocal"
    /\ Len(st_stream.pending_frames) = 1
    /\ st_stream.sender.next_seq = 1

\* Stream::recv of nexstream/src/stream.rs: the inbound queue afterwards,
\* Ok or the error, the payload returned
NexStreamRecv(state, recv_buf) ==
    CASE state \in {"Open", "HalfClosedLocal"} ->
            IF recv_buf # << >>
            THEN [recv_buf |-> Tail(recv_buf), result |-> "Ok", out |-> Some(Head(recv_buf))]
            ELSE [recv_buf |-> recv_buf, result |-> "Ok", out |-> None]
      [] state \in {"HalfClosedRemote", "Closed"} ->
            IF recv_buf # << >>
            THEN [recv_buf |-> Tail(recv_buf), result |-> "Ok", out |-> Some(Head(recv_buf))]
            ELSE IF state = "Closed"
                 THEN [recv_buf |-> recv_buf, result |-> "StreamClosed", out |-> None]
                 ELSE [recv_buf |-> recv_buf, result |-> "Ok", out |-> None]
      [] OTHER -> [recv_buf |-> recv_buf, result |-> "InvalidStateTransition", out |-> None]

\* C14: in every reachable state, recv() fails with InvalidStateTransition
\* in Idle whatever is queued; in the other states it returns the oldest
\* queued payload and removes it as long as one is queued (so in
\* HalfClosedRemote and Closed the queue is drained before the end is
\* signalled), and with an empty queue it returns None in Open,
\* HalfClosedLocal and HalfClosedRemote and fails with StreamClosed in
\* Closed; payloads are enqueued at the tail, and close() and remote_close()
\* leave the queue as it is.
C14_RecvFifoThenEnd ==
    /\ LET r == StreamRecv(st_stream)
           n == NexStreamRecv(st_stream.state, st_stream.recv_buf)
       IN /\ st_stream.state = "Idle" =>
                r = Outcome(st_stream, "InvalidStateTransition", None)
          /\ (st_stream.state # "Idle" /\ st_stream.recv_buf # << >>) =>
                r = Outcome([st_stream EXCEPT !.recv_buf = Tail(@)], "Ok",
                            Some(Head(st_stream.recv_buf)))
          /\ (st_stream.state \in {"Open", "HalfClosedLocal", "HalfClosedRemote"}
                  /\ st_stream.recv_buf = << >>) =>
                r = Outcome(st_stream, "Ok", None)
          /\ (st_stream.state = "Closed" /\ st_stream.recv_buf = << >>) =>
                r = Outcome(st_stream, "StreamClosed", None)
          /\ n = [recv_buf |-> r.stream.recv_buf, result |-> r.result, out |-> r.out]
    /\ \A data \in Payloads :
          StreamPushRecv(st_stream, data).stream.recv_buf = Append(st_stream.recv_buf, data)
    /\ \A frame \in STFrames :
          IsPrefix(st_stream.recv_buf, StreamTransportReceive(st_stream, frame).stream.recv_buf)
    /\ StreamClose(st_stream).stream.recv_buf = st_stream.recv_buf
    /\ StreamRemoteClose(st_stream).stream.recv_buf = st_stream.recv_buf
    /\ st_last.op = "recv" =>
          /\ st_last.result = "InvalidStateTransition" <=> st_stream.state = "Idle"
          /\ st_last.result = "StreamClosed" =>
                st_stream.state = "Closed" /\ st_stream.recv_buf = << >>
          /\ (st_last.result = "Ok" /\ st_last.out = None) =>
                st_stream.recv_buf = << >> /\ st_stream.state # "Closed"

\* a stream closed by close() and remote_close() with two payloads queued
\* has returned the first of them; the second is still queued
C14_Witness ==
    /\ st_stream.state = "Closed"
    /\ ~st_hist.reset
    /\ st_last.op = "recv"
    /\ st_last.result = "Ok"
    /\ st_last.out = Some("A")
    /\ st_stream.recv_buf = <<"B">>

\* C15: after reset(), whatever the state before, the stream is Closed, no
\* outbound frame is pending, no received payload is queued and retransmit()
\* returns no frame.
C15_ResetClearsAllBuffers ==
    st_last.op = "reset" =>
        /\ st_stream.state = "Closed"
        /\ st_stream.pending_frames = << >>
        /\ st_stream.recv_buf = << >>
        /\ StreamRetransmit(st_stream).out = << >>

\* ------------------------------------------------------------------------
\* Multiplexer (strandstream/src/mux.rs)
\* ------------------------------------------------------------------------

\* Size of the u32 stream-ID space (2^32 in the source), scaled down; like
\* 2^32 it is a power of two, so the stride-2 counter stays odd when it wraps
IdSpace == 8

\* the stream IDs calls and frames carry: the two reserved ones, three the
\* counter hands out and one it never hands out
StreamIds == {0, 1, 2, 3, 5, IdSpace - 1}

\* 0xFFFF_FFFF
ReservedMaxId == IdSpace - 1

\* successful create_stream calls before the model stops creating streams
MaxCreates == 5

\* payloads sent plus streams handed DATA frames, over the streams of the
\* table, before the model stops sending and dispatching DATA frames
MaxMuxTraffic == 1

\* payloads queued for the application over all streams before the model
\* stops dispatching DATA frames
MaxMuxQueued == 1

\* the max_streams values a multiplexer is constructed with
MaxStreamsArgs == {0, 1, 2}

\* the modes streams are created with
MuxModes == {"ReliableOrdered", "BestEffort"}

\* u32::wrapping_add(2)
WrappingAdd2(x) == (x + 2) % IdSpace

\* Multiplexer::new
MuxNew(max_streams) ==
    [streams |-> EmptyMap, next_client_stream_id |-> 1, max_streams |-> max_streams]

\* the outcome of a call: the multiplexer afterwards, Ok or the error, and
\* the value returned with Ok
MuxOutcome(m, result, out) == [mux |-> m, result |-> result, out |-> out]

\* HashMap::len
StreamCount(m) == Cardinality(DOMAIN m.streams)

\* Multiplexer::active_stream_count
ActiveStreamCount(m) ==
    Cardinality({id \in DOMAIN m.streams : m.streams[id].state # "Closed"})

\* Multiplexer::get_stream
GetStream(m, id) == IF id \in DOMAIN m.streams THEN Some(m.streams[id]) ELSE None

\* a create_stream that refuses only above the cap (> for >=)
MuxCreateStreamAboveCap(m, mode) ==
    IF StreamCount(m) > m.max_streams
    THEN MuxOutcome(m, "MaxStreamsExceeded", None)
    ELSE LET id == m.next_client_stream_id
             opened == StreamOpen(StreamNew(id, mode))
         IN MuxOutcome([m EXCEPT !.next_client_stream_id = WrappingAdd2(id),
                                 !.streams = MapInsert(@, id, opened.stream)],
                       "Ok", Some(id))

\* Multiplexer::create_stream
MuxCreateStream(m, mode) ==
    IF StreamCount(m) >= m.max_streams
    THEN MuxOutcome(m, "MaxStreamsExceeded", None)
    ELSE LET id == m.next_client_stream_id
             next == WrappingAdd2(id)
             opened == StreamOpen(StreamNew(id, mode))
         IN IF opened.result # "Ok"
            THEN MuxOutcome([m EXCEPT !.next_client_stream_id = next], opened.result, None)
            ELSE MuxOutcome([m EXCEPT !.next_client_stream_id = next,
                                      !.streams = MapInsert(@, id, opened.stream)],
                            "Ok", Some(id))

\* Multiplexer::send
MuxSend(m, stream_id, data) ==
    IF stream_id \notin DOMAIN m.streams
    THEN MuxOutcome(m, "StreamNotFound", None)
    ELSE LET r == StreamSend(m.streams[stream_id], data)
         IN MuxOutcome([m EXCEPT !.streams[stream_id] = r.stream], r.result, r.out)

\* Multiplexer::recv
MuxRecv(m, stream_id) ==
    IF stream_id \notin DOMAIN m.streams
    THEN MuxOutcome(m, "StreamNotFound", None)
    ELSE LET r == StreamRecv(m.streams[stream_id])
         IN MuxOutcome([m EXCEPT !.streams[stream_id] = r.stream], r.result, r.out)

\* the frames of the streams in the order the map is iterated
RECURSIVE FramesInOrder(_, _)
FramesInOrder(streams, order) ==
    IF order = << >> THEN << >>
    ELSE streams[Head(order)].pending_frames \o FramesInOrder(streams, Tail(order))

\* the orders in which a HashMap with these keys may be iterated
IterationOrders(keys) ==
    {o \in [1..Cardinality(keys) -> keys] : \A i, j \in DOMAIN o : i # j => o[i] # o[j]}

\* a drain_frames that returns the frames and leaves them pending (used to
\* test the claims)
MuxDrainFramesKeepPending(m, order) ==
    MuxOutcome(m, "Ok", FramesInOrder(m.streams, order))

\* Multiplexer::drain_frames, the map iterated in the given order
MuxDrainFrames(m, order) ==
    MuxOutcome([m EXCEPT !.streams =
                    [id \in DOMAIN m.streams |-> StreamDrainFrames(m.streams[id]).stream]],
               "Ok", FramesInOrder(m.streams, order))

\* Multiplexer::close_stream
MuxCloseStream(m, stream_id) ==
    IF stream_id \notin DOMAIN m.streams
    THEN MuxOutcome(m, "StreamNotFound", None)
    ELSE LET r == StreamClose(m.streams[stream_id])
         IN MuxOutcome([m EXCEPT !.streams[stream_id] = r.stream], r.result, r.out)

\* a validation that rejects 0 only
ValidateStreamIdZeroOnly(id) == id # 0

\* Multiplexer::validate_stream_id: TRUE for Ok(())
ValidateStreamId(id) == ~(id = 0 \/ id = ReservedMaxId)

\* Multiplexer::poll
MuxPoll(m, frame) ==
    IF frame.type \notin {"Data", "Fin", "Rst"} THEN MuxOutcome(m, "Ok", None)
    ELSE IF ~ValidateStreamId(frame.stream_id) THEN MuxOutcome(m, "InvalidStreamId", None)
    ELSE IF frame.stream_id \notin DOMAIN m.streams THEN MuxOutcome(m, "StreamNotFound", None)
    ELSE LET id == frame.stream_id
             stream == m.streams[id]
         IN CASE frame.type = "Data" ->
                    LET r == StreamTransportReceive(stream, frame)
                    IN MuxOutcome([m EXCEPT !.streams[id] = r.stream], r.result, None)
              [] frame.type = "Fin" ->
                    MuxOutcome([m EXCEPT !.streams[id] = StreamRemoteClose(stream).stream],
                               "Ok", None)
              [] OTHER ->
                    LET reset == [m EXCEPT !.streams[id] = StreamReset(stream).stream]
                    IN MuxOutcome([reset EXCEPT !.streams = MapRemove(@, id)], "Ok", None)

\* Multiplexer::remove_closed_streams
MuxRemoveClosedStreams(m) ==
    MuxOutcome([m EXCEPT !.streams =
                    [id \in {i \in DOMAIN m.streams : m.streams[i].state # "Closed"} |->
                        m.streams[id]]],
               "Ok", None)

\* the multiplexer as it is now
MuxNow ==
    [streams |-> mx_streams, next_client_stream_id |-> mx_next_client_stream_id,
     max_streams |-> mx_max_streams]

\* the record of a call: the operation and Ok or the error
MXCall(op, r) == [op |-> op, result |-> r.result]

\* payloads sent on the streams of the table
MuxSent(m) == SumOver([id \in DOMAIN m.streams |-> m.streams[id].sender.next_seq], DOMAIN m.streams)

\* payloads queued for the application on the streams of the table
MuxQueued(m) == SumOver([id \in DOMAIN m.streams |-> Len(m.streams[id].recv_buf)], DOMAIN m.streams)

\* streams of the table that have been handed a DATA frame
MuxReceiving(m) ==
    Cardinality({id \in DOMAIN m.streams :
                    \/ m.streams[id].receiver # ReceiverNew(m.streams[id].mode)
                    \/ m.streams[id].recv_buf # << >>})

\* payloads sent plus streams handed DATA frames
MuxTraffic(m) == MuxSent(m) + MuxReceiving(m)

\* the frames that may be dispatched: DATA, FIN and RST for every stream ID,
\* and a frame of another type
MXFrames ==
    {FrameData(id, seq, "A") : id \in StreamIds, seq \in InboundSeqs}
        \cup {FrameFin(id) : id \in StreamIds} \cup {FrameRst(id) : id \in StreamIds}
        \cup {[type |-> "Ping", stream_id |-> 0]}

\* Multiplexer::new: a fresh multiplexer takes the place of the old one
MXNew(max_streams) ==
    /\ mx_streams' = EmptyMap
    /\ mx_next_client_stream_id' = 1
    /\ mx_max_streams' = max_streams
    /\ mx_last' = [op |-> "new", result |-> "Ok"]
    /\ mx_created' = 0
    /\ UNCHANGED <<roVars, ruVars, hsVars, rtVars, ldVars, ccVars, stVars, cnVars, fcVars, rttVars, drVars, frVars, micVars, snVars>>

\* Multiplexer::create_stream
MXCreateStream(mode) ==
    /\ mx_created < MaxCreates
    /\ LET r == MuxCreateStream(MuxNow, mode)
       IN /\ mx_streams' = r.mux.streams
          /\ mx_next_client_stream_id' = r.mux.next_client_stream_id
          /\ mx_max_streams' = r.mux.max_streams
          /\ mx_last' = MXCall("create_stream", r)
          /\ mx_created' = IF r.result = "Ok" THEN mx_created + 1 ELSE mx_created
    /\ UNCHANGED <<roVars, ruVars, hsVars, rtVars, ldVars, ccVars, stVars, cnVars, fcVars, rttVars, drVars, frVars, micVars, snVars>>

\* Multiplexer::send
MXSend(stream_id, data) ==
    /\ MuxTraffic(MuxSend(MuxNow, stream_id, data).mux) <= MaxMuxTraffic
    /\ LET r == MuxSend(MuxNow, stream_id, data)
       IN /\ mx_streams' = r.mux.streams
          /\ mx_next_client_stream_id' = r.mux.next_client_stream_id
          /\ mx_max_streams' = r.mux.max_streams
          /\ mx_last' = MXCall("send", r)
          /\ mx_created' = mx_created
    /\ UNCHANGED <<roVars, ruVars, hsVars, rtVars, ldVars, ccVars, stVars, cnVars, fcVars, rttVars, drVars, frVars, micVars, snVars>>

\* Multiplexer::recv
MXRecv(stream_id) ==
    /\ LET r == MuxRecv(MuxNow, stream_id)
       IN /\ mx_streams' = r.mux.streams
          /\ mx_next_client_stream_id' = r.mux.next_client_stream_id
          /\ mx_max_streams' = r.mux.max_streams
          /\ mx_last' = MXCall("recv", r)
          /\ mx_created' = mx_created
    /\ UNCHANGED <<roVars, ruVars, hsVars, rtVars, ldVars, ccVars, stVars, cnVars, fcVars, rttVars, drVars, frVars, micVars, snVars>>

\* Multiplexer::drain_frames
MXDrainFrames(order) ==
    /\ LET r == MuxDrainFrames(MuxNow, order)
       IN /\ mx_streams' = r.mux.streams
          /\ mx_next_client_stream_id' = r.mux.next_client_stream_id
          /\ mx_max_streams' = r.mux.max_streams
          /\ mx_last' = MXCall("drain_frames", r)
          /\ mx_created' = mx_created
    /\ UNCHANGED <<roVars, ruVars, hsVars, rtVars, ldVars, ccVars, stVars, cnVars, fcVars, rttVars, drVars, frVars, micVars, snVars>>

\* Multiplexer::close_stream
MXCloseStream(stream_id) ==
    /\ LET r == MuxCloseStream(MuxNow, stream_id)
       IN /\ mx_streams' = r.mux.streams
          /\ mx_next_client_stream_id' = r.mux.next_client_stream_id
          /\ mx_max_streams' = r.mux.max_streams
          /\ mx_last' = MXCall("close_stream", r)
          /\ mx_created' = mx_created
    /\ UNCHANGED <<roVars, ruVars, hsVars, rtVars, ldVars, ccVars, stVars, cnVars, fcVars, rttVars, drVars, frVars, micVars, snVars>>

\* Multiplexer::poll
MXPoll(frame) ==
    /\ MuxQueued(MuxPoll(MuxNow, frame).mux) <= MaxMuxQueued
    /\ MuxTraffic(MuxPoll(MuxNow, frame).mux) <= MaxMuxTraffic
    /\ LET r == MuxPoll(MuxNow, frame)
       IN /\ mx_streams' = r.mux.streams
          /\ mx_next_client_stream_id' = r.mux.next_client_stream_id
          /\ mx_max_streams' = r.mux.max_streams
          /\ mx_last' = MXCall("poll", r)
          /\ mx_created' = mx_created
    /\ UNCHANGED <<roVars, ruVars, hsVars, rtVars, ldVars, ccVars, stVars, cnVars, fcVars, rttVars, drVars, frVars, micVars, snVars>>

\* Multiplexer::remove_closed_streams
MXRemoveClosedStreams ==
    /\ LET r == MuxRemoveClosedStreams(MuxNow)
       IN /\ mx_streams' = r.mux.streams
          /\ mx_next_client_stream_id' = r.mux.next_client_stream_id
          /\ mx_max_streams' = r.mux.max_streams
          /\ mx_last' = MXCall("remove_closed_streams", r)
          /\ mx_created' = mx_created
    /\ UNCHANGED <<roVars, ruVars, hsVars, rtVars, ldVars, ccVars, stVars, cnVars, fcVars, rttVars, drVars, frVars, micVars, snVars>>

\* Multiplexer::new(2)
InitMX ==
    /\ mx_streams = EmptyMap
    /\ mx_next_client_stream_id = 1
    /\ mx_max_streams = 2
    /\ mx_last = [op |-> "new", result |-> "Ok"]
    /\ mx_created = 0

NextMX ==
    \/ \E max_streams \in MaxStreamsArgs : MXNew(max_streams)
    \/ \E mode \in MuxModes : MXCreateStream(mode)
    \/ \E stream_id \in StreamIds, data \in SendData : MXSend(stream_id, data)
    \/ \E stream_id \in StreamIds : MXRecv(stream_id)
    \/ \E order \in IterationOrders(DOMAIN mx_streams) : MXDrainFrames(order)
    \/ \E stream_id \in StreamIds : MXCloseStream(stream_id)
    \/ \E frame \in MXFrames : MXPoll(frame)
    \/ MXRemoveClosedStreams

\* C16: in every reachable state the ID a successful create_stream returns
\* is neither 0 nor 0xFFFFFFFF and is not a key of the table (so no entry is
\* replaced), and no stream of the table has a reserved ID.
C16_FreshUnreservedIds ==
    /\ \A mode \in MuxModes :
          LET r == MuxCreateStream(MuxNow, mode)
          IN r.result = "Ok" =>
                /\ r.out.value \notin {0, ReservedMaxId}
                /\ r.out.value \notin DOMAIN mx_streams
                /\ \A id \in DOMAIN mx_streams : r.mux.streams[id] = mx_streams[id]
    /\ \A id \in DOMAIN mx_streams : id \notin {0, ReservedMaxId}

\* C17: in every reachable state, with k-1 successful create_stream calls
\* made so far, a successful create_stream returns 2k-1 and leaves in the
\* table an Open stream of that ID with the requested mode, and a failing
\* create_stream leaves the ID counter (and the table) as they were.
C17_KthIdIsTwoKMinusOne ==
    \A mode \in MuxModes :
        LET r == MuxCreateStream(MuxNow, mode)
            k == mx_created + 1
        IN /\ r.result = "Ok" =>
                 /\ r.out = Some(2 * k - 1)
                 /\ r.out.value % 2 = 1
                 /\ r.out.value \in DOMAIN r.mux.streams
                 /\ r.mux.streams[r.out.value].id = r.out.value
                 /\ r.mux.streams[r.out.value].state = "Open"
                 /\ r.mux.streams[r.out.value].mode = mode
           /\ r.result # "Ok" => r.mux = MuxNow

\* C18: in every reachable state create_stream fails with
\* MaxStreamsExceeded, and changes nothing, if the table holds max_streams
\* streams, and succeeds otherwise; the table never holds more than
\* max_streams streams; after an RST dispatch or a sweep that removed an
\* entry create_stream succeeds.
C18_CapEnforced ==
    /\ StreamCount(MuxNow) <= mx_max_streams
    /\ \A mode \in MuxModes :
          LET r == MuxCreateStream(MuxNow, mode)
          IN /\ StreamCount(MuxNow) = mx_max_streams =>
                   r = MuxOutcome(MuxNow, "MaxStreamsExceeded", None)
             /\ StreamCount(MuxNow) # mx_max_streams => r.result = "Ok"
    /\ \A mode \in MuxModes, id \in StreamIds :
          LET after == MuxPoll(MuxNow, FrameRst(id)).mux
          IN StreamCount(after) < StreamCount(MuxNow) =>
                MuxCreateStream(after, mode).result = "Ok"
    /\ \A mode \in MuxModes :
          LET after == MuxRemoveClosedStreams(MuxNow).mux
          IN StreamCount(after) < StreamCount(MuxNow) =>
                MuxCreateStream(after, mode).result = "Ok"
    /\ mx_last = [op |-> "create_stream", result |-> "MaxStreamsExceeded"] =>
          StreamCount(MuxNow) = mx_max_streams

\* a third stream was created after one of the first two had been removed,
\* and the create_stream that followed failed with the table at its cap of 2
C18_Witness ==
    /\ mx_last = [op |-> "create_stream", result |-> "MaxStreamsExceeded"]
    /\ mx_max_streams = 2
    /\ StreamCount(MuxNow) = 2
    /\ mx_created = 3

\* C19: in every reachable state, dispatching a DATA, FIN or RST frame with
\* stream_id 0 or 0xFFFFFFFF returns InvalidStreamId, dispatching one with
\* any other stream_id that is not in the table returns StreamNotFound, and
\* in both cases the multiplexer (table, streams, counter) is unchanged.
C19_RejectedDispatchChangesNothing ==
    /\ \A frame \in MXFrames :
          frame.type \in {"Data", "Fin", "Rst"} =>
              LET r == MuxPoll(MuxNow, frame)
              IN /\ frame.stream_id \in {0, ReservedMaxId} =>
                       r = MuxOutcome(MuxNow, "InvalidStreamId", None)
                 /\ (frame.stream_id \notin {0, ReservedMaxId}
                         /\ frame.stream_id \notin DOMAIN mx_streams) =>
                       r = MuxOutcome(MuxNow, "StreamNotFound", None)
    /\ mx_last.result = "InvalidStreamId" => mx_last.op = "poll"

\* a frame with a reserved stream_id was refused by a multiplexer that
\* holds two streams, one of them with a payload queued
C19_Witness ==
    /\ mx_last = [op |-> "poll", result |-> "InvalidStreamId"]
    /\ StreamCount(MuxNow) = 2
    /\ MuxQueued(MuxNow) = 1

\* C20: in every reachable state, dispatching an RST frame for a stream of
\* the table returns Ok and removes the entry: get_stream(id) is None,
\* stream_count() is one lower, send, recv, close_stream and the dispatch of
\* DATA, FIN and RST for that id fail with StreamNotFound, and every other
\* stream is as it was.
C20_RstRemovesStream ==
    \A id \in DOMAIN mx_streams :
        LET r == MuxPoll(MuxNow, FrameRst(id))
        IN /\ r.result = "Ok"
           /\ GetStream(r.mux, id) = None
           /\ StreamCount(r.mux) = StreamCount(MuxNow) - 1
           /\ \A data \in SendData : MuxSend(r.mux, id, data).result = "StreamNotFound"
           /\ MuxRecv(r.mux, id).result = "StreamNotFound"
           /\ MuxCloseStream(r.mux, id).result = "StreamNotFound"
           /\ MuxPoll(r.mux, FrameData(id, 0, "A")).result = "StreamNotFound"
           /\ MuxPoll(r.mux, FrameFin(id)).result = "StreamNotFound"
           /\ MuxPoll(r.mux, FrameRst(id)).result = "StreamNotFound"
           /\ \A other \in DOMAIN mx_streams \ {id} :
                 other \in DOMAIN r.mux.streams /\ r.mux.streams[other] = mx_streams[other]

\* ------------------------------------------------------------------------
\* Flow controller (strandstream/src/flow_control.rs)
\* ------------------------------------------------------------------------

\* FlowController::with_windows
FlowControllerWithWindows(connection_window, default_stream_window) ==
    [stream_windows |-> EmptyMap,
     connection_window |-> connection_window,
     default_stream_window |-> default_stream_window]

\* FlowController::add_stream: entry(stream_id).or_insert(default)
FlowAddStream(fc, stream_id) ==
    [fc EXCEPT !.stream_windows = MapOrInsert(@, stream_id, fc.default_stream_window)]

\* FlowController::remove_stream
FlowRemoveStream(fc, stream_id) ==
    [fc EXCEPT !.stream_windows = MapRemove(@, stream_id)]

\* FlowController::update_window: (w + delta).max(0), for windows and deltas
\* whose sum stays inside isize
FlowUpdateWindow(fc, stream_id, delta) ==
    IF stream_id \notin DOMAIN fc.stream_windows
    THEN [fc |-> fc, result |-> "StreamNotFound"]
    ELSE [fc |-> [fc EXCEPT !.stream_windows[stream_id] = Max2(@ + delta, 0)],
          result |-> "Ok"]

\* FlowController::update_connection_window
FlowUpdateConnectionWindow(fc, delta) ==
    [fc EXCEPT !.connection_window = Max2(@ + delta, 0)]

\* FlowController::available: min(stream window or 0, connection window)
FlowAvailable(fc, stream_id) ==
    LET stream_avail == IF stream_id \in DOMAIN fc.stream_windows
                        THEN fc.stream_windows[stream_id]
                        ELSE 0
    IN Min2(stream_avail, fc.connection_window)

\* a consume that tests the stream's window only (used to test the claims)
FlowConsumeStreamWindowOnly(fc, stream_id, bytes) ==
    LET registered == stream_id \in DOMAIN fc.stream_windows
        avail == IF registered THEN fc.stream_windows[stream_id] ELSE 0
    IN IF bytes > avail
       THEN [fc |-> fc, result |-> "FlowControlBlocked"]
       ELSE [fc |-> [fc EXCEPT !.stream_windows =
                                  IF registered
                                  THEN [@ EXCEPT ![stream_id] = SaturatingSub(@, bytes)]
                                  ELSE @,
                               !.connection_window = SaturatingSub(@, bytes)],
             result |-> "Ok"]

\* FlowController::consume
FlowConsume(fc, stream_id, bytes) ==
    LET avail == FlowAvailable(fc, stream_id)
    IN IF bytes > avail
       THEN [fc |-> fc, result |-> "FlowControlBlocked"]
       ELSE LET windows == IF stream_id \in DOMAIN fc.stream_windows
                           THEN [fc.stream_windows EXCEPT
                                    ![stream_id] = SaturatingSub(@, bytes)]
                           ELSE fc.stream_windows
            IN [fc |-> [fc EXCEPT !.stream_windows = windows,
                                  !.connection_window = SaturatingSub(@, bytes)],
                result |-> "Ok"]

\* FlowController::release, for windows that stay inside usize
FlowRelease(fc, stream_id, bytes) ==
    LET windows == IF stream_id \in DOMAIN fc.stream_windows
                   THEN [fc.stream_windows EXCEPT ![stream_id] = @ + bytes]
                   ELSE fc.stream_windows
    IN [fc EXCEPT !.stream_windows = windows, !.connection_window = @ + bytes]

\* ------------------------------------------------------------------------
\* Connection (nexstream/src/connection.rs) over the nexstream multiplexer
\* (nexstream/src/mux.rs) and streams (nexstream/src/stream.rs)
\* ------------------------------------------------------------------------

ConnectionStates == {"Idle", "Connecting", "Open", "Closing", "Closed"}

\* payloads queued per stream and direction in the model
MaxConnBuf == 2

\* the stream IDs the calls on the connection carry: two the multiplexer
\* hands out and one it does not
ConnIds == {1, 3, 5}

\* ConnectionConfig of the modelled connection
ConnConfig == [max_streams |-> 2, connection_window |-> 2, stream_window |-> 1]

\* Stream::new followed by Stream::open (nexstream/src/stream.rs), as
\* create_stream calls them
NexStreamOpened(id, mode) ==
    [id |-> id, mode |-> mode, state |-> "Open", send_buf |-> << >>, recv_buf |-> << >>]

\* Multiplexer::create_stream of nexstream/src/mux.rs
NexMuxCreateStream(m, mode) ==
    IF Cardinality(DOMAIN m.streams) >= m.max_streams
    THEN MuxOutcome(m, "MaxStreamsExceeded", None)
    ELSE LET id == m.next_client_stream_id
         IN MuxOutcome([m EXCEPT !.next_client_stream_id = WrappingAdd2(id),
                                 !.streams = MapInsert(@, id, NexStreamOpened(id, mode))],
                       "Ok", Some(id))

\* Multiplexer::send of nexstream/src/mux.rs
NexMuxSend(m, stream_id, data) ==
    IF stream_id \notin DOMAIN m.streams
    THEN MuxOutcome(m, "StreamNotFound", None)
    ELSE LET s == m.streams[stream_id]
             r == NexStreamSend(s.state, s.send_buf, data)
         IN MuxOutcome([m EXCEPT !.streams[stream_id].send_buf = r.send_buf],
                       r.result, None)

\* Multiplexer::recv of nexstream/src/mux.rs
NexMuxRecv(m, stream_id) ==
    IF stream_id \notin DOMAIN m.streams
    THEN MuxOutcome(m, "StreamNotFound", None)
    ELSE LET s == m.streams[stream_id]
             r == NexStreamRecv(s.state, s.recv_buf)
         IN MuxOutcome([m EXCEPT !.streams[stream_id].recv_buf = r.recv_buf],
                       r.result, r.out)

\* Connection::new: the state, the multiplexer and the flow controller (the
\* congestion controller, RTT estimator and loss detector are not touched by
\* the connection's own methods)
ConnectionNew(config) ==
    [state |-> "Idle",
     mux |-> MuxNew(config.max_streams),
     flow_control |-> FlowControllerWithWindows(config.connection_window,
                                                config.stream_window)]

ConnOutcome(c, result, out) == [conn |-> c, result |-> result, out |-> out]

\* a connect that also leaves Closed (used to test the claims)
ConnConnectFromClosed(c) ==
    IF c.state \in {"Idle", "Closed"}
    THEN ConnOutcome([c EXCEPT !.state = "Connecting"], "Ok", None)
    ELSE ConnOutcome(c, "InvalidStateTransition", None)

\* Connection::connect
ConnConnect(c) ==
    IF c.state = "Idle"
    THEN ConnOutcome([c EXCEPT !.state = "Connecting"], "Ok", None)
    ELSE ConnOutcome(c, "InvalidStateTransition", None)

\* Connection::accept
ConnAccept(c) ==
    IF c.state \in {"Idle", "Connecting"}
    THEN ConnOutcome([c EXCEPT !.state = "Open"], "Ok", None)
    ELSE ConnOutcome(c, "InvalidStateTransition", None)

\* Connection::open_stream
ConnOpenStream(c, mode) ==
    IF c.state # "Open"
    THEN ConnOutcome(c, "ConnectionClosed", None)
    ELSE LET r == NexMuxCreateStream(c.mux, mode)
         IN IF r.result # "Ok"
            THEN ConnOutcome([c EXCEPT !.mux = r.mux], r.result, None)
            ELSE ConnOutcome([c EXCEPT !.mux = r.mux,
                                       !.flow_control = FlowAddStream(@, r.out.value)],
                             "Ok", r.out)

\* a send without the state test (used to test the claims)
ConnSendAnyState(c, stream_id, data) ==
    LET r == NexMuxSend(c.mux, stream_id, data)
    IN ConnOutcome([c EXCEPT !.mux = r.mux], r.result, None)

\* Connection::send
ConnSend(c, stream_id, data) ==
    IF c.state # "Open"
    THEN ConnOutcome(c, "ConnectionClosed", None)
    ELSE LET r == NexMuxSend(c.mux, stream_id, data)
         IN ConnOutcome([c EXCEPT !.mux = r.mux], r.result, None)

\* Connection::recv
ConnRecv(c, stream_id) ==
    IF c.state # "Open"
    THEN ConnOutcome(c, "ConnectionClosed", None)
    ELSE LET r == NexMuxRecv(c.mux, stream_id)
         IN ConnOutcome([c EXCEPT !.mux = r.mux], r.result, r.out)

\* Connection::close: in Open the state is set to Closing and then to Closed
\* inside the one call
ConnClose(c) ==
    CASE c.state = "Open" ->
            LET closing == [c EXCEPT !.state = "Closing"]
            IN ConnOutcome([closing EXCEPT !.state = "Closed"], "Ok", None)
      [] c.state \in {"Closing", "Closed"} -> ConnOutcome(c, "Ok", None)
      [] OTHER -> ConnOutcome(c, "InvalidStateTransition", None)

\* mux_mut().get_stream_mut(id): Stream::push_recv on a stream of the table
ConnPushRecv(c, stream_id, data) ==
    [c EXCEPT !.mux.streams[stream_id].recv_buf = Append(@, data)]

CNCall(op, r) ==
    /\ cn_conn' = r.conn
    /\ cn_last' = [op |-> op, result |-> r.result, before |-> cn_conn.state]
    /\ UNCHANGED <<roVars, ruVars, hsVars, rtVars, ldVars, ccVars, stVars, mxVars, fcVars, rttVars, drVars, frVars, micVars, snVars>>

CNConnect == CNCall("connect", ConnConnect(cn_conn))

CNAccept == CNCall("accept", ConnAccept(cn_conn))

CNOpenStream(mode) == CNCall("open_stream", ConnOpenStream(cn_conn, mode))

CNSend(stream_id, data) ==
    LET r == ConnSend(cn_conn, stream_id, data)
    IN /\ \A id \in DOMAIN r.conn.mux.streams :
             Len(r.conn.mux.streams[id].send_buf) <= MaxConnBuf
       /\ CNCall("send", r)

CNRecv(stream_id) == CNCall("recv", ConnRecv(cn_conn, stream_id))

CNClose == CNCall("close", ConnClose(cn_conn))

CNPushRecv(stream_id, data) ==
    /\ stream_id \in DOMAIN cn_conn.mux.streams
    /\ Len(cn_conn.mux.streams[stream_id].recv_buf) < MaxConnBuf
    /\ CNCall("push_recv", ConnOutcome(ConnPushRecv(cn_conn, stream_id, data), "Ok", None))

\* flow_control_mut().consume(stream_id, 1)
CNConsume(stream_id) ==
    CNCall("consume", [conn |-> [cn_conn EXCEPT !.flow_control =
                                    FlowConsume(@, stream_id, 1).fc],
                       result |-> FlowConsume(cn_conn.flow_control, stream_id, 1).result])

InitCN ==
    /\ cn_conn = ConnectionNew(ConnConfig)
    /\ cn_last = [op |-> "new", result |-> "Ok", before |-> "Idle"]

NextCN ==
    \/ CNConnect
    \/ CNAccept
    \/ \E mode \in MuxModes : CNOpenStream(mode)
    \/ \E stream_id \in ConnIds, data \in SendData : CNSend(stream_id, data)
    \/ \E stream_id \in ConnIds : CNRecv(stream_id)
    \/ CNClose
    \/ \E stream_id \in ConnIds, data \in SendData : CNPushRecv(stream_id, data)
    \/ \E stream_id \in ConnIds : CNConsume(stream_id)

\* C21: in every reachable state, connect succeeds exactly in Idle and leads
\* to Connecting, accept succeeds exactly in Idle and Connecting and leads to
\* Open, close leads from Open to Closed, succeeds without change in Closing
\* and Closed and fails in Idle and Connecting; a failed call returns
\* InvalidStateTransition and leaves the connection as it was; open_stream,
\* send and recv never change the state; no call leaves Closed, and Closing
\* is never the state between two calls.
C21_ConnectionStateMachine ==
    LET s == cn_conn.state
        connect == ConnConnect(cn_conn)
        accept == ConnAccept(cn_conn)
        close == ConnClose(cn_conn)
    IN /\ connect = IF s = "Idle"
                    THEN ConnOutcome([cn_conn EXCEPT !.state = "Connecting"], "Ok", None)
                    ELSE ConnOutcome(cn_conn, "InvalidStateTransition", None)
       /\ accept = IF s \in {"Idle", "Connecting"}
                   THEN ConnOutcome([cn_conn EXCEPT !.state = "Open"], "Ok", None)
                   ELSE ConnOutcome(cn_conn, "InvalidStateTransition", None)
       /\ close = CASE s = "Open" -> ConnOutcome([cn_conn EXCEPT !.state = "Closed"], "Ok", None)
                    [] s \in {"Closing", "Closed"} -> ConnOutcome(cn_conn, "Ok", None)
                    [] OTHER -> ConnOutcome(cn_conn, "InvalidStateTransition", None)
       /\ \A mode \in MuxModes : ConnOpenStream(cn_conn, mode).conn.state = s
       /\ \A id \in ConnIds :
             /\ ConnRecv(cn_conn, id).conn.state = s
             /\ \A data \in SendData : ConnSend(cn_conn, id, data).conn.state = s
       /\ s # "Closing"
       /\ cn_last.before = "Closed" => s = "Closed"
       /\ s # cn_last.before =>
             /\ cn_last.result = "Ok"
             /\ <<cn_last.op, cn_last.before, s>> \in
                   {<<"connect", "Idle", "Connecting">>,
                    <<"accept", "Idle", "Open">>,
                    <<"accept", "Connecting", "Open">>,
                    <<"close", "Open", "Closed">>}

\* connect was refused on a connection that was closed after two streams
\* were opened on it: it is still Closed
C21_Witness ==
    /\ cn_last = [op |-> "connect", result |-> "InvalidStateTransition", before |-> "Closed"]
    /\ cn_conn.state = "Closed"
    /\ Cardinality(DOMAIN cn_conn.mux.streams) = 2

\* C22: in every reachable state and for every state other than Open the
\* connection could be in with the same multiplexer and flow controller,
\* open_stream, send and recv return ConnectionClosed and leave the
\* multiplexer and the flow controller as they were; in Open none of them
\* returns ConnectionClosed.
C22_StreamOpsRequireOpen ==
    /\ \A st \in ConnectionStates \ {"Open"} :
          LET c == [cn_conn EXCEPT !.state = st]
          IN /\ \A mode \in MuxModes :
                   ConnOpenStream(c, mode) = ConnOutcome(c, "ConnectionClosed", None)
             /\ \A id \in ConnIds :
                   /\ ConnRecv(c, id) = ConnOutcome(c, "ConnectionClosed", None)
                   /\ \A data \in SendData :
                         ConnSend(c, id, data) = ConnOutcome(c, "ConnectionClosed", None)
    /\ cn_conn.state = "Open" =>
          /\ \A mode \in MuxModes : ConnOpenStream(cn_conn, mode).result # "ConnectionClosed"
          /\ \A id \in ConnIds :
                /\ ConnRecv(cn_conn, id).result # "ConnectionClosed"
                /\ \A data \in SendData :
                      ConnSend(cn_conn, id, data).result # "ConnectionClosed"
    /\ (cn_last.op \in {"open_stream", "send", "recv"} /\ cn_last.before # "Open") =>
          cn_last.result = "ConnectionClosed"

\* a send was refused with ConnectionClosed after close(), on a stream that
\* is in the table, is Open and has room in the flow-control windows
C22_Witness ==
    /\ cn_last = [op |-> "send", result |-> "ConnectionClosed", before |-> "Closed"]
    /\ 1 \in DOMAIN cn_conn.mux.streams
    /\ cn_conn.mux.streams[1].state = "Open"
    /\ cn_conn.mux.streams[1].send_buf = <<"A">>
    /\ FlowAvailable(cn_conn.flow_control, 1) = 1

\* C23: in every step, a create_init that returned Ok was called in Idle, a
\* process_response in InitSent, a process_init in Idle and a
\* process_complete in ResponseReceived; called in any other state each
\* returns InvalidStateTransition and leaves the role's state (and the
\* Responder's key cache) unchanged; the Initiator's state only moves Idle ->
\* InitSent -> Complete, the Responder's only Idle -> ResponseReceived ->
\* Complete, and no call changes a role that is Complete.
C23_CallsOnlyInTheirState ==
    [][/\ i_last' # i_last => i_last'.from = i_state.tag
       /\ r_last' # r_last => r_last'.from = r_state.tag
       /\ \A c \in {<<i_last', "create_init", "Idle">>,
                    <<i_last', "process_response", "InitSent">>,
                    <<r_last', "process_init", "Idle">>,
                    <<r_last', "process_complete", "ResponseReceived">>} :
             c[1].op = c[2] =>
                /\ c[1].result = "Ok" => c[1].from = c[3]
                /\ c[1].from # c[3] <=> c[1].result = "InvalidStateTransition"
       /\ i_last'.result = "InvalidStateTransition" => i_state' = i_state
       /\ r_last'.result = "InvalidStateTransition" =>
             r_state' = r_state /\ r_cache' = r_cache
       /\ i_state'.tag # i_state.tag =>
             <<i_state.tag, i_state'.tag>> \in {<<"Idle", "InitSent">>, <<"InitSent", "Complete">>}
       /\ r_state'.tag # r_state.tag =>
             <<r_state.tag, r_state'.tag>> \in
                {<<"Idle", "ResponseReceived">>, <<"ResponseReceived", "Complete">>}
       /\ i_state.tag = "Complete" => i_state' = i_state
       /\ r_state.tag = "Complete" => r_state' = r_state /\ r_cache' = r_cache
      ]_vars

\* both roles are Complete, and a create_init and a process_complete made
\* after that were refused
C23_Witness ==
    /\ i_state.tag = "Complete"
    /\ r_state.tag = "Complete"
    /\ i_last = CallRecord("create_init", "Complete", "InvalidStateTransition", TRUE, TRUE)
    /\ r_last.op = "process_complete"
    /\ r_last.from = "Complete"
    /\ r_last.result = "InvalidStateTransition"

\* C24: a role on which process_init, process_response or process_complete
\* has failed on a check of its message (peer MIC, AEAD tag, finished
\* plaintext) is never Complete afterwards.
C24_FailureAborts ==
    /\ "initiator" \in hs_failed => i_state.tag # "Complete"
    /\ "responder" \in hs_failed => r_state.tag # "Complete"

\* the flow controller on its own: its windows are driven by every method

\* windows stay at or below this many bytes in the model
MaxWindow == 3

\* stream IDs registered and used in the calls
FcIds == {1, 3}

\* byte counts and window deltas passed to the calls
FcBytes == 0..(MaxWindow + 1)

FcDeltas == {-2, -1, 1}

\* every window of the controller is at most MaxWindow
FcWithinModel(fc) ==
    /\ fc.connection_window <= MaxWindow
    /\ \A id \in DOMAIN fc.stream_windows : fc.stream_windows[id] <= MaxWindow

FCCall(op, stream_id, bytes, fc, result) ==
    /\ FcWithinModel(fc)
    /\ fc_ctl' = fc
    /\ fc_last' = [op |-> op, stream_id |-> stream_id, bytes |-> bytes, result |-> result,
                   available |-> FlowAvailable(fc_ctl, stream_id)]
    /\ UNCHANGED <<roVars, ruVars, hsVars, rtVars, ldVars, ccVars, stVars, mxVars, cnVars, rttVars, drVars, frVars, micVars, snVars>>

FCAddStream(stream_id) ==
    FCCall("add_stream", stream_id, 0, FlowAddStream(fc_ctl, stream_id), "Ok")

FCRemoveStream(stream_id) ==
    FCCall("remove_stream", stream_id, 0, FlowRemoveStream(fc_ctl, stream_id), "Ok")

FCUpdateWindow(stream_id, delta) ==
    LET r == FlowUpdateWindow(fc_ctl, stream_id, delta)
    IN FCCall("update_window", stream_id, 0, r.fc, r.result)

FCUpdateConnectionWindow(delta) ==
    FCCall("update_connection_window", 0, 0, FlowUpdateConnectionWindow(fc_ctl, delta), "Ok")

FCConsume(stream_id, bytes) ==
    LET r == FlowConsume(fc_ctl, stream_id, bytes)
    IN FCCall("consume", stream_id, bytes, r.fc, r.result)

FCRelease(stream_id, bytes) ==
    FCCall("release", stream_id, bytes, FlowRelease(fc_ctl, stream_id, bytes), "Ok")

InitFC ==
    /\ fc_ctl = FlowControllerWithWindows(MaxWindow, 2)
    /\ fc_last = [op |-> "new", stream_id |-> 0, bytes |-> 0, result |-> "Ok", available |-> 0]

NextFC ==
    \/ \E stream_id \in FcIds : FCAddStream(stream_id)
    \/ \E stream_id \in FcIds : FCRemoveStream(stream_id)
    \/ \E stream_id \in FcIds, delta \in FcDeltas : FCUpdateWindow(stream_id, delta)
    \/ \E delta \in FcDeltas : FCUpdateConnectionWindow(delta)
    \/ \E stream_id \in FcIds, bytes \in FcBytes : FCConsume(stream_id, bytes)
    \/ \E stream_id \in FcIds, bytes \in FcBytes : FCRelease(stream_id, bytes)

\* C25: in every reachable state, available(id) is the smaller of the
\* stream's window and the connection window, and 0 for a stream that is not
\* registered; consume(id, n) returns FlowControlBlocked and changes nothing
\* exactly when n > available(id), and otherwise returns Ok, lowers the
\* stream's window and the connection window by exactly n and leaves the
\* other streams' windows as they were.
C25_ConsumeDebitsBothWindows ==
    /\ \A id \in FcIds :
          LET registered == id \in DOMAIN fc_ctl.stream_windows
              avail == FlowAvailable(fc_ctl, id)
          IN /\ ~registered => avail = 0
             /\ registered =>
                   /\ avail <= fc_ctl.stream_windows[id]
                   /\ avail <= fc_ctl.connection_window
                   /\ avail \in {fc_ctl.stream_windows[id], fc_ctl.connection_window}
             /\ \A n \in FcBytes :
                   LET r == FlowConsume(fc_ctl, id, n)
                   IN /\ r.result = "FlowControlBlocked" <=> n > avail
                      /\ r.result = "FlowControlBlocked" => r.fc = fc_ctl
                      /\ r.result # "FlowControlBlocked" =>
                            /\ r.result = "Ok"
                            /\ r.fc.connection_window = fc_ctl.connection_window - n
                            /\ DOMAIN r.fc.stream_windows = DOMAIN fc_ctl.stream_windows
                            /\ registered =>
                                  r.fc.stream_windows[id] = fc_ctl.stream_windows[id] - n
                            /\ \A other \in DOMAIN fc_ctl.stream_windows \ {id} :
                                  r.fc.stream_windows[other] = fc_ctl.stream_windows[other]
                            /\ r.fc.default_stream_window = fc_ctl.default_stream_window
    /\ fc_last.op = "consume" =>
          (fc_last.result = "FlowControlBlocked" <=> fc_last.bytes > fc_last.available)

\* a consume of 2 bytes on stream 3 was blocked by a connection window of 1
\* although the stream's own window is 2
C25_Witness ==
    /\ fc_last = [op |-> "consume", stream_id |-> 3, bytes |-> 2,
                  result |-> "FlowControlBlocked", available |-> 1]
    /\ 3 \in DOMAIN fc_ctl.stream_windows
    /\ fc_ctl.stream_windows[3] = 2
    /\ fc_ctl.connection_window = 1

\* ------------------------------------------------------------------------
\* RTT estimator (strandstream/src/rtt.rs)
\* ------------------------------------------------------------------------

\* std::time::Duration counted in ticks.  The model's tick is 1 microsecond
\* and the largest Duration is 2^31 - 1 ticks (Duration counts nanoseconds
\* up to 2^64 seconds); Duration * u32 and Duration + Duration panic when
\* the result exceeds the largest Duration.
DurationMax == 2147483647

MIN_RTO == 200000

MAX_RTO == 60000000

GRANULARITY == 1000

\* Duration::from_secs(1), the RTO before the first sample
INITIAL_RTO == 1000000

\* update calls made on the estimator in the model
MaxUpdates == 3

\* RTT samples: zero, 100 us, 100 ms, 120 ms, 100 s, 400 s and the largest
\* Duration
RttSamples == {0, 100, 100000, 120000, 100000000, 400000000, DurationMax}

\* Duration * u32: the product, or overflow
DurationMul(d, k) ==
    IF d > DurationMax \div k THEN [overflow |-> TRUE, value |-> 0]
    ELSE [overflow |-> FALSE, value |-> d * k]

\* Duration + Duration: the sum, or overflow
DurationAdd(a, b) ==
    IF a > DurationMax - b THEN [overflow |-> TRUE, value |-> 0]
    ELSE [overflow |-> FALSE, value |-> a + b]

\* Duration::clamp
DurationClamp(d, lo, hi) == IF d < lo THEN lo ELSE IF d > hi THEN hi ELSE d

\* RttEstimator::new
RttNew == [srtt |-> None, rttvar |-> None, rto |-> INITIAL_RTO]

RttOutcome(est, result) == [est |-> est, result |-> result]

\* RttEstimator::recompute_rto; a panic leaves rto as it was
RecomputeRto(est) ==
    IF ~(est.srtt.some /\ est.rttvar.some) THEN RttOutcome(est, "Ok")
    ELSE LET scaled == DurationMul(est.rttvar.value, 4)
         IN IF scaled.overflow THEN RttOutcome(est, "panic")
            ELSE LET var_component == Max2(GRANULARITY, scaled.value)
                     sum == DurationAdd(est.srtt.value, var_component)
                 IN IF sum.overflow THEN RttOutcome(est, "panic")
                    ELSE RttOutcome([est EXCEPT !.rto = DurationClamp(sum.value, MIN_RTO, MAX_RTO)],
                                    "Ok")

\* RttEstimator::update; a panic leaves the fields assigned before it
RttUpdate(est, sample) ==
    IF ~est.srtt.some
    THEN RecomputeRto([est EXCEPT !.srtt = Some(sample), !.rttvar = Some(sample \div 2)])
    ELSE LET srtt == est.srtt.value
             diff == IF srtt > sample THEN srtt - sample ELSE sample - srtt
             rttvar == IF est.rttvar.some THEN est.rttvar.value ELSE diff
             rttvar3 == DurationMul(rttvar, 3)
             var_sum == IF rttvar3.overflow THEN rttvar3 ELSE DurationAdd(rttvar3.value, diff)
         IN IF var_sum.overflow THEN RttOutcome(est, "panic")
            ELSE LET est1 == [est EXCEPT !.rttvar = Some(var_sum.value \div 4)]
                     srtt7 == DurationMul(srtt, 7)
                     srtt_sum == IF srtt7.overflow THEN srtt7
                                 ELSE DurationAdd(srtt7.value, sample)
                 IN IF srtt_sum.overflow THEN RttOutcome(est1, "panic")
                    ELSE RecomputeRto([est1 EXCEPT !.srtt = Some(srtt_sum.value \div 8)])

\* update(sample); a panic ends the thread that drives the estimator
RTTUpdate(sample) ==
    LET r == RttUpdate(rtt_est, sample)
    IN /\ rtt_last.result # "panic"
       /\ rtt_calls < MaxUpdates
       /\ rtt_est' = r.est
       /\ rtt_last' = [op |-> "update", sample |-> sample, result |-> r.result]
       /\ rtt_calls' = rtt_calls + 1
       /\ UNCHANGED <<roVars, ruVars, hsVars, rtVars, ldVars, ccVars, stVars, mxVars, cnVars, fcVars, drVars, frVars, micVars, snVars>>

InitRTT ==
    /\ rtt_est = RttNew
    /\ rtt_last = [op |-> "new", sample |-> 0, result |-> "Ok"]
    /\ rtt_calls = 0

NextRTT == \E sample \in RttSamples : RTTUpdate(sample)

\* srtt + max(1 ms, 4 * rttvar) clamped to [MIN_RTO, MAX_RTO], computed
\* without a limit on the size of a Duration
ClampedRto(srtt, rttvar) ==
    IF srtt >= MAX_RTO \/ rttvar >= MAX_RTO THEN MAX_RTO
    ELSE DurationClamp(srtt + Max2(GRANULARITY, 4 * rttvar), MIN_RTO, MAX_RTO)

\* C26: before any sample and after every update(sample), the RTO lies in
\* [200 ms, 60 s], and every update returns having set it to
\* srtt + max(1 ms, 4 * rttvar) of the srtt and rttvar it has just stored,
\* clamped to that interval.
C26_RtoClamped ==
    /\ MIN_RTO <= rtt_est.rto
    /\ rtt_est.rto <= MAX_RTO
    /\ rtt_last.op = "update" =>
          /\ rtt_last.result = "Ok"
          /\ rtt_est.srtt.some
          /\ rtt_est.rttvar.some
          /\ rtt_est.rto = ClampedRto(rtt_est.srtt.value, rtt_est.rttvar.value)

\* floor(0.7 * w) in exact arithmetic
ExactBeta(w) == (w \div 10) * 7 + ((w % 10) * 7) \div 10

\* C27 as stated: on_loss at congestion window W sets the congestion window
\* and ssthresh both to max(MIN_WINDOW, floor(0.7 * W)), records W as w_max
\* and leaves the controller out of slow start.
C27_LossSetsBetaWindow ==
    \A bytes \in CCBytes :
        LET after == CubicOnLoss(CubicNow, bytes)
        IN /\ after.cwnd = Max2(MIN_WINDOW, ExactBeta(cc_cwnd))
           /\ after.ssthresh = after.cwnd
           /\ after.w_max = cc_cwnd
           /\ ~InSlowStart(after.cwnd, after.ssthresh)

\* ------------------------------------------------------------------------
\* Outbound frames of the multiplexer: send and drain_frames followed with a
\* record, per stream of the table, of the payloads sent on it and of the
\* payloads drain_frames has returned for it
\* ------------------------------------------------------------------------

\* payloads sent per stream before the model stops sending on it
MaxDrainSends == 2

\* streams created on the multiplexer in the model
MaxDrainCreates == 2

\* the stream IDs the calls carry: those of the streams created and one more
DrainIds == {1, 3, 5}

\* FIN and RST frames for the streams
DrainFrames == {FrameFin(id) : id \in DrainIds} \cup {FrameRst(id) : id \in DrainIds}

\* the payloads of the frames of one stream, in the order they have in frames
RECURSIVE PayloadsFor(_, _)
PayloadsFor(frames, stream_id) ==
    IF frames = << >> THEN << >>
    ELSE LET rest == PayloadsFor(Tail(frames), stream_id)
         IN IF Head(frames).stream_id = stream_id
            THEN <<Head(frames).payload>> \o rest
            ELSE rest

\* the records restricted to the streams of the table, empty for new streams
DrainKeep(history, m) ==
    [id \in DOMAIN m.streams |-> IF id \in DOMAIN history THEN history[id] ELSE << >>]

DRCall(op, r, sent, returned) ==
    /\ dr_mux' = r.mux
    /\ dr_sent' = DrainKeep(sent, r.mux)
    /\ dr_returned' = DrainKeep(returned, r.mux)
    /\ dr_last' = [op |-> op, result |-> r.result]
    /\ UNCHANGED <<roVars, ruVars, hsVars, rtVars, ldVars, ccVars, stVars, mxVars, cnVars, fcVars, rttVars, frVars, micVars, snVars>>

\* create_stream: the new stream has sent nothing
DRCreateStream(mode) ==
    LET r == MuxCreateStream(dr_mux, mode)
    IN /\ dr_created < MaxDrainCreates
       /\ dr_created' = IF r.result = "Ok" THEN dr_created + 1 ELSE dr_created
       /\ DRCall("create_stream", r,
                 IF r.result = "Ok" THEN MapInsert(dr_sent, r.out.value, << >>) ELSE dr_sent,
                 IF r.result = "Ok" THEN MapInsert(dr_returned, r.out.value, << >>)
                 ELSE dr_returned)

\* send: a successful send is recorded
DRSend(stream_id, data) ==
    LET r == MuxSend(dr_mux, stream_id, data)
    IN /\ stream_id \in DOMAIN dr_sent => Len(dr_sent[stream_id]) < MaxDrainSends
       /\ UNCHANGED dr_created
       /\ DRCall("send", r,
                 IF r.result = "Ok"
                 THEN [dr_sent EXCEPT ![stream_id] = Append(@, data)]
                 ELSE dr_sent,
                 dr_returned)

\* drain_frames: what it returns for each stream is recorded
DRDrainFrames(order) ==
    LET r == MuxDrainFrames(dr_mux, order)
    IN /\ UNCHANGED dr_created
       /\ DRCall("drain_frames", r, dr_sent,
                 [id \in DOMAIN dr_returned |-> dr_returned[id] \o PayloadsFor(r.out, id)])

DRCloseStream(stream_id) ==
    /\ UNCHANGED dr_created
    /\ DRCall("close_stream", MuxCloseStream(dr_mux, stream_id), dr_sent, dr_returned)

\* poll of a FIN or RST frame: a stream removed by RST leaves the records
DRPoll(frame) ==
    /\ UNCHANGED dr_created
    /\ DRCall("poll", MuxPoll(dr_mux, frame), dr_sent, dr_returned)

DRRemoveClosedStreams ==
    /\ UNCHANGED dr_created
    /\ DRCall("remove_closed_streams", MuxRemoveClosedStreams(dr_mux), dr_sent, dr_returned)

\* Multiplexer::new(2)
InitDR ==
    /\ dr_mux = MuxNew(2)
    /\ dr_sent = EmptyMap
    /\ dr_returned = EmptyMap
    /\ dr_last = [op |-> "new", result |-> "Ok"]
    /\ dr_created = 0

NextDR ==
    \/ \E mode \in MuxModes : DRCreateStream(mode)
    \/ \E stream_id \in DrainIds, data \in Payloads : DRSend(stream_id, data)
    \/ \E order \in IterationOrders(DOMAIN dr_mux.streams) : DRDrainFrames(order)
    \/ \E stream_id \in DrainIds : DRCloseStream(stream_id)
    \/ \E frame \in DrainFrames : DRPoll(frame)
    \/ DRRemoveClosedStreams

\* C28: in every reachable state and for every stream of the table, the
\* payloads drain_frames has returned for the stream so far followed by the
\* payloads of its pending frames are exactly the payloads sent on it, in
\* the order they were sent (each frame sent is returned once, by a later
\* drain_frames, unless the stream is reset or removed first, and the
\* frames of one stream keep their order within a result and across
\* results); drain_frames returns, for whatever order of the streams, the
\* pending frames of every stream in their order and nothing else, and
\* leaves no frame pending.
C28_DrainReturnsEachFrameOnceInOrder ==
    /\ DOMAIN dr_sent = DOMAIN dr_mux.streams
    /\ DOMAIN dr_returned = DOMAIN dr_mux.streams
    /\ \A id \in DOMAIN dr_mux.streams :
          dr_returned[id] \o PayloadsOf(dr_mux.streams[id].pending_frames) = dr_sent[id]
    /\ \A order \in IterationOrders(DOMAIN dr_mux.streams) :
          LET r == MuxDrainFrames(dr_mux, order)
          IN /\ r.result = "Ok"
             /\ \A id \in DOMAIN dr_mux.streams :
                   /\ PayloadsFor(r.out, id) = PayloadsOf(dr_mux.streams[id].pending_frames)
                   /\ r.mux.streams[id].pending_frames = << >>
             /\ \A i \in 1..Len(r.out) :
                   /\ r.out[i].stream_id \in DOMAIN dr_mux.streams
                   /\ r.out[i] \in {dr_mux.streams[r.out[i].stream_id].pending_frames[j] :
                                       j \in 1..Len(dr_mux.streams[r.out[i].stream_id].pending_frames)}
             /\ Len(r.out) = SumOver([id \in DOMAIN dr_mux.streams |->
                                         Len(dr_mux.streams[id].pending_frames)],
                                     DOMAIN dr_mux.streams)
    /\ dr_last.op = "drain_frames" =>
          \A id \in DOMAIN dr_mux.streams : dr_returned[id] = dr_sent[id]

\* two streams: on stream 1 the payloads B and A were sent and returned by
\* two drain_frames calls or one, on stream 3 the payload A was sent after
\* the last drain and is still pending
C28_Witness ==
    /\ DOMAIN dr_mux.streams = {1, 3}
    /\ dr_sent[1] = <<"B", "A">>
    /\ dr_returned[1] = <<"B", "A">>
    /\ dr_sent[3] = <<"A">>
    /\ dr_returned[3] = << >>
    /\ dr_last = [op |-> "send", result |-> "Ok"]

\* ------------------------------------------------------------------------
\* Wire frames (strandstream/src/frame.rs): encode, encoded_len and decode
\* over byte sequences
\* ------------------------------------------------------------------------

\* the width of the range count written by `ranges.len() as u16`, scaled
\* from 65536 so that lists of ranges longer than the count field occur
U16Space == 4

\* FrameType as u8
FrameTypeByte(type) ==
    CASE type = "Data" -> 1
      [] type = "Ack" -> 2
      [] type = "Nack" -> 3
      [] type = "Fin" -> 4
      [] type = "Rst" -> 5
      [] type = "Ping" -> 6
      [] type = "Pong" -> 7
      [] type = "WindowUpdate" -> 8
      [] type = "StreamOpen" -> 16
      [] type = "StreamAck" -> 17
      [] type = "StreamClose" -> 18
      [] type = "StreamReset" -> 19
      [] type = "Congestion" -> 64

FrameTypes ==
    {"Data", "Ack", "Nack", "Fin", "Rst", "Ping", "Pong", "WindowUpdate", "StreamOpen",
     "StreamAck", "StreamClose", "StreamReset", "Congestion"}

\* FrameType::try_from(u8)
FrameTypeTryFrom(value) ==
    IF \E t \in FrameTypes : FrameTypeByte(t) = value
    THEN CHOOSE t \in FrameTypes : FrameTypeByte(t) = value
    ELSE "Unknown"

\* BufMut::put_u16, put_u32, put_u64: big-endian bytes
PutU16(v) == <<(v \div 256) % 256, v % 256>>

PutU32(v) == <<(v \div 16777216) % 256, (v \div 65536) % 256, (v \div 256) % 256, v % 256>>

PutU64(v) == PutU32((v \div 65536) \div 65536) \o PutU32(v)

\* Buf::get_u16, get_u32, get_u64 on a slice: the big-endian value
RECURSIVE BigEndian(_)
BigEndian(bytes) ==
    IF bytes = << >> THEN 0
    ELSE BigEndian(SubSeq(bytes, 1, Len(bytes) - 1)) * 256 + bytes[Len(bytes)]

\* &data[from..to]
Slice(data, from, to) == SubSeq(data, from + 1, to)

\* the loop `for r in ranges { put_u32(r.start); put_u32(r.end) }`
RECURSIVE PutRanges(_)
PutRanges(ranges) ==
    IF ranges = << >> THEN << >>
    ELSE PutU32(Head(ranges).start) \o PutU32(Head(ranges).end) \o PutRanges(Tail(ranges))

\* Frame::encode_into on an empty buffer; the count of an ACK or NACK is
\* the length of ranges cast to the width of the count field
FrameEncode(f) ==
    <<FrameTypeByte(f.type)>> \o
    CASE f.type = "Data" ->
            PutU32(f.stream_id) \o PutU32(f.seq) \o <<f.flags>> \o PutU32(Len(f.payload))
            \o f.payload
      [] f.type = "Ack" ->
            PutU32(f.stream_id) \o PutU32(f.ack_seq) \o PutU16(Len(f.ranges) % U16Space)
            \o PutRanges(f.ranges)
      [] f.type = "Nack" ->
            PutU32(f.stream_id) \o PutU16(Len(f.ranges) % U16Space) \o PutRanges(f.ranges)
      [] f.type \in {"Fin", "StreamAck", "StreamClose"} -> PutU32(f.stream_id)
      [] f.type \in {"Rst", "StreamReset"} -> PutU32(f.stream_id) \o PutU32(f.error_code)
      [] f.type \in {"Ping", "Pong"} -> PutU64(f.ping_id)
      [] f.type = "WindowUpdate" -> PutU32(f.stream_id) \o PutU32(f.window_increment)
      [] f.type = "StreamOpen" -> PutU32(f.stream_id) \o <<f.transport_mode>>
      [] f.type = "Congestion" -> PutU32(f.stream_id) \o PutU32(f.cwnd) \o PutU32(f.rtt_us)

\* an encoded_len that counts the fixed fields only (used to test the claims)
FrameEncodedLenFixedFields(f) ==
    1 + CASE f.type = "Data" -> 4 + 4 + 1 + 4
          [] f.type = "Ack" -> 4 + 4 + 2
          [] f.type = "Nack" -> 4 + 2
          [] f.type \in {"Fin", "StreamAck", "StreamClose"} -> 4
          [] f.type \in {"Rst", "StreamReset", "WindowUpdate"} -> 4 + 4
          [] f.type \in {"Ping", "Pong"} -> 8
          [] f.type = "StreamOpen" -> 4 + 1
          [] f.type = "Congestion" -> 4 + 4 + 4

\* Frame::encoded_len
FrameEncodedLen(f) ==
    1 + CASE f.type = "Data" -> 4 + 4 + 1 + 4 + Len(f.payload)
          [] f.type = "Ack" -> 4 + 4 + 2 + Len(f.ranges) * 8
          [] f.type = "Nack" -> 4 + 2 + Len(f.ranges) * 8
          [] f.type \in {"Fin", "StreamAck", "StreamClose"} -> 4
          [] f.type \in {"Rst", "StreamReset", "WindowUpdate"} -> 4 + 4
          [] f.type \in {"Ping", "Pong"} -> 8
          [] f.type = "StreamOpen" -> 4 + 1
          [] f.type = "Congestion" -> 4 + 4 + 4

\* Frame::decode_ranges
DecodeRanges(data, count) ==
    [i \in 1..count |-> [start |-> BigEndian(Slice(data, 8 * (i - 1), 8 * (i - 1) + 4)),
                         end |-> BigEndian(Slice(data, 8 * (i - 1) + 4, 8 * i))]]

DecodeOk(f) == [result |-> "Ok", frame |-> f]

\* NexStreamError::FrameTooShort { expected, actual }
FrameTooShort(expected, actual) ==
    [result |-> "FrameTooShort", expected |-> expected, actual |-> actual]

\* Frame::decode; ensure_len(data, needed) fails when data.len() < needed
FrameDecode(bytes) ==
    IF bytes = << >> THEN FrameTooShort(1, 0)
    ELSE
    LET frame_type == FrameTypeTryFrom(bytes[1])
        data == Tail(bytes)
        stream_id == BigEndian(Slice(data, 0, 4))
        Fixed(needed, f) == IF Len(data) < needed THEN FrameTooShort(needed, Len(data))
                            ELSE DecodeOk(f)
    IN CASE frame_type = "Unknown" -> [result |-> "UnknownFrameType", value |-> bytes[1]]
         [] frame_type = "Data" ->
               IF Len(data) < 13 THEN FrameTooShort(13, Len(data))
               ELSE LET payload_len == BigEndian(Slice(data, 9, 13))
                        rest == Slice(data, 13, Len(data))
                    IN IF Len(rest) < payload_len THEN FrameTooShort(payload_len, Len(rest))
                       ELSE DecodeOk([type |-> "Data", stream_id |-> stream_id,
                                      seq |-> BigEndian(Slice(data, 4, 8)),
                                      flags |-> data[9],
                                      payload |-> Slice(rest, 0, payload_len)])
         [] frame_type = "Ack" ->
               IF Len(data) < 10 THEN FrameTooShort(10, Len(data))
               ELSE LET range_count == BigEndian(Slice(data, 8, 10))
                        rest == Slice(data, 10, Len(data))
                    IN IF Len(rest) < range_count * 8
                       THEN FrameTooShort(range_count * 8, Len(rest))
                       ELSE DecodeOk([type |-> "Ack", stream_id |-> stream_id,
                                      ack_seq |-> BigEndian(Slice(data, 4, 8)),
                                      ranges |-> DecodeRanges(rest, range_count)])
         [] frame_type = "Nack" ->
               IF Len(data) < 6 THEN FrameTooShort(6, Len(data))
               ELSE LET range_count == BigEndian(Slice(data, 4, 6))
                        rest == Slice(data, 6, Len(data))
                    IN IF Len(rest) < range_count * 8
                       THEN FrameTooShort(range_count * 8, Len(rest))
                       ELSE DecodeOk([type |-> "Nack", stream_id |-> stream_id,
                                      ranges |-> DecodeRanges(rest, range_count)])
         [] frame_type \in {"Fin", "StreamAck", "StreamClose"} ->
               Fixed(4, [type |-> frame_type, stream_id |-> stream_id])
         [] frame_type \in {"Rst", "StreamReset"} ->
               Fixed(8, [type |-> frame_type, stream_id |-> stream_id,
                         error_code |-> BigEndian(Slice(data, 4, 8))])
         [] frame_type \in {"Ping", "Pong"} ->
               Fixed(8, [type |-> frame_type, ping_id |-> BigEndian(Slice(data, 0, 8))])
         [] frame_type = "WindowUpdate" ->
               Fixed(8, [type |-> frame_type, stream_id |-> stream_id,
                         window_increment |-> BigEndian(Slice(data, 4, 8))])
         [] frame_type = "StreamOpen" ->
               Fixed(5, [type |-> frame_type, stream_id |-> stream_id,
                         transport_mode |-> data[5]])
         [] frame_type = "Congestion" ->
               Fixed(12, [type |-> frame_type, stream_id |-> stream_id,
                          cwnd |-> BigEndian(Slice(data, 4, 8)),
                          rtt_us |-> BigEndian(Slice(data, 8, 12))])

\* the field values of the frames of the model: u32 and u64 values with one,
\* two and four significant bytes
WireIds == {0, 1, 16909060}

WireValues == {258, 2147483647}

WirePayloads == {<< >>, <<104>>, <<0, 255, 7>>}

\* DataFlags::NONE, FIN and KEY_FRAME
WireFlags == {0, 1, 2}

\* lists of 0 to 5 ranges: those of 4 and 5 are longer than the count field
WireRange(i) == [start |-> i, end |-> 256 * i + 1]

WireRangeLists == {[i \in 1..n |-> WireRange(i)] : n \in 0..(U16Space + 1)}

WireFrames ==
    [type : {"Data"}, stream_id : WireIds, seq : WireValues, flags : WireFlags,
     payload : WirePayloads]
    \cup [type : {"Ack"}, stream_id : WireIds, ack_seq : WireValues, ranges : WireRangeLists]
    \cup [type : {"Nack"}, stream_id : WireIds, ranges : WireRangeLists]
    \cup [type : {"Fin", "StreamAck", "StreamClose"}, stream_id : WireIds]
    \cup [type : {"Rst", "StreamReset"}, stream_id : WireIds, error_code : WireValues]
    \cup [type : {"Ping", "Pong"}, ping_id : WireIds \cup WireValues]
    \cup [type : {"WindowUpdate"}, stream_id : WireIds, window_increment : WireValues]
    \cup [type : {"StreamOpen"}, stream_id : WireIds, transport_mode : {0, 3}]
    \cup [type : {"Congestion"}, stream_id : WireIds, cwnd : WireValues, rtt_us : WireValues]

\* frame.encode() and frame.encoded_len()
FREncode(f) ==
    /\ fr_frame' = f
    /\ fr_bytes' = FrameEncode(f)
    /\ fr_len' = FrameEncodedLen(f)
    /\ fr_decoded' = [input_len |-> 0, result |-> "None"]
    /\ UNCHANGED <<roVars, ruVars, hsVars, rtVars, ldVars, ccVars, stVars, mxVars, cnVars, fcVars, rttVars, drVars, micVars, snVars>>

\* Frame::decode of the first n bytes of the encoding
FRDecode(n) ==
    /\ fr_frame.type # "None"
    /\ fr_decoded' = [input_len |-> n] @@ FrameDecode(SubSeq(fr_bytes, 1, n))
    /\ UNCHANGED <<fr_frame, fr_bytes, fr_len>>
    /\ UNCHANGED <<roVars, ruVars, hsVars, rtVars, ldVars, ccVars, stVars, mxVars, cnVars, fcVars, rttVars, drVars, micVars, snVars>>

\* no frame encoded yet
InitFR ==
    /\ fr_frame = [type |-> "None"]
    /\ fr_bytes = << >>
    /\ fr_len = 0
    /\ fr_decoded = [input_len |-> 0, result |-> "None"]

NextFR ==
    \/ \E f \in WireFrames : FREncode(f)
    \/ \E n \in 0..Len(fr_bytes) : FRDecode(n)

\* a frame the wire format can carry: the number of ranges fits the count
\* field (the payload lengths of the model all fit the u32 length field)
Encodable(f) == f.type \in {"Ack", "Nack"} => Len(f.ranges) < U16Space

\* C29: for every frame, encoded_len is the number of bytes encode
\* produces; decode of the whole encoding returns a frame equal to the
\* encoded one for every frame that can be encoded, of every frame type
\* (and the only frames it does not return are ACK and NACK frames with
\* more ranges than the count field can hold).
C29_RoundTrip ==
    fr_frame.type # "None" =>
        /\ fr_len = Len(fr_bytes)
        /\ (fr_decoded.result # "None" /\ fr_decoded.input_len = Len(fr_bytes)) =>
              (Encodable(fr_frame) <=>
                  /\ fr_decoded.result = "Ok"
                  /\ fr_decoded.frame = fr_frame)

\* a DATA frame with a payload and an ACK frame with three ranges, encoded
\* and decoded back
C29_Witness ==
    /\ fr_frame.type = "Ack"
    /\ Len(fr_frame.ranges) = 3
    /\ fr_frame.stream_id = 16909060
    /\ fr_len = 35
    /\ fr_decoded.input_len = 35
    /\ fr_decoded.result = "Ok"
    /\ fr_decoded.frame = fr_frame

\* ------------------------------------------------------------------------
\* MIC builder and validator (strandtrust/src/mic/builder.rs, validator.rs)
\* ------------------------------------------------------------------------

\* unix times of validity windows and of validate calls
MicTimes == {0, 2, 5}

\* durations given to valid_for_from, in seconds
MicDurations == {2, 3}

MicKeys == {Alice, Mallory}

\* MICBuilder::new
MICBuilderNew(keypair) ==
    [live |-> TRUE, keypair |-> keypair, model_hash |-> None, valid_from |-> None,
     valid_until |-> None]

\* the builder after build() or a panic has consumed it
BuilderGone ==
    [live |-> FALSE, keypair |-> Alice, model_hash |-> None, valid_from |-> None,
     valid_until |-> None]

\* MICBuilder::build: the MIC, or MicBuild when model_hash or the validity
\* window is missing or valid_until <= valid_from
MICBuilderBuild(b) ==
    IF ~b.model_hash.some \/ ~b.valid_from.some \/ ~b.valid_until.some
    THEN [result |-> "MicBuild", mic |-> None]
    ELSE IF b.valid_until.value <= b.valid_from.value
    THEN [result |-> "MicBuild", mic |-> None]
    ELSE [result |-> "Ok",
          mic |-> Some(BuildMIC(b.keypair, b.valid_from.value, b.valid_until.value))]

MICCall(op, now, result) ==
    /\ mic_last' = [op |-> op, now |-> now, result |-> result]
    /\ UNCHANGED <<roVars, ruVars, hsVars, rtVars, ldVars, ccVars, stVars, mxVars, cnVars, fcVars, rttVars, drVars, frVars, snVars>>

MBNew(keypair) ==
    /\ mic_builder' = MICBuilderNew(keypair)
    /\ UNCHANGED mic_cert
    /\ MICCall("new", 0, "Ok")

\* MICBuilder::model_hash
MBModelHash ==
    /\ mic_builder.live
    /\ mic_builder' = [mic_builder EXCEPT !.model_hash = Some("hash")]
    /\ UNCHANGED mic_cert
    /\ MICCall("model_hash", 0, "Ok")

\* MICBuilder::validity
MBValidity(from, until) ==
    /\ mic_builder.live
    /\ mic_builder' = [mic_builder EXCEPT !.valid_from = Some(from), !.valid_until = Some(until)]
    /\ UNCHANGED mic_cert
    /\ MICCall("validity", 0, "Ok")

\* MICBuilder::valid_for_from: now + duration.as_secs() in u64; a sum past
\* the u64 range panics in a build with overflow checks and wraps in one
\* without
MBValidForFrom(now, secs) ==
    /\ mic_builder.live
    /\ UNCHANGED mic_cert
    /\ \/ /\ now + secs < U64Space
          /\ mic_builder' = [mic_builder EXCEPT !.valid_from = Some(now),
                                                !.valid_until = Some(now + secs)]
          /\ MICCall("valid_for_from", now, "Ok")
       \/ /\ now + secs >= U64Space
          /\ mic_builder' = [mic_builder EXCEPT !.valid_from = Some(now),
                                                !.valid_until = Some((now + secs) % U64Space)]
          /\ MICCall("valid_for_from", now, "Ok")
       \/ /\ now + secs >= U64Space
          /\ mic_builder' = BuilderGone
          /\ MICCall("valid_for_from", now, "panic")

\* MICBuilder::build consumes the builder
MBBuild ==
    LET r == MICBuilderBuild(mic_builder)
    IN /\ mic_builder.live
       /\ mic_builder' = BuilderGone
       /\ mic_cert' = IF r.result = "Ok" THEN [built |-> TRUE, mic |-> r.mic.value]
                      ELSE mic_cert
       /\ MICCall("build", 0, r.result)

\* a MIC read from the wire (mic::serializer::deserialize checks no field):
\* signed by its issuer over any window
MICReceive(issuer, from, until) ==
    /\ mic_cert' = [built |-> FALSE, mic |-> BuildMIC(issuer, from, until)]
    /\ UNCHANGED mic_builder
    /\ MICCall("deserialize", 0, "Ok")

\* a field of the MIC changed after signing
MICTamper(field) ==
    /\ mic_cert.mic.node_id # "none"
    /\ mic_cert' =
          [built |-> FALSE,
           mic |-> CASE field = "model_hash" -> [mic_cert.mic EXCEPT !.model_hash = "other"]
                     [] field = "valid_from" -> [mic_cert.mic EXCEPT !.valid_from = 0]
                     [] field = "valid_until" -> [mic_cert.mic EXCEPT !.valid_until = 5]
                     [] field = "issuer_public_key" ->
                           [mic_cert.mic EXCEPT !.issuer_public_key = Mallory]
                     [] field = "signature" ->
                           [mic_cert.mic EXCEPT !.signature = Sign(Mallory, @.message)]]
    /\ mic_cert' # mic_cert
    /\ UNCHANGED mic_builder
    /\ MICCall("tamper", 0, "Ok")

\* validate(&mic, now)
MICValidate(now) ==
    /\ mic_cert.mic.node_id # "none"
    /\ UNCHANGED <<mic_builder, mic_cert>>
    /\ MICCall("validate", now, Validate(mic_cert.mic, now))

\* no builder and no MIC yet
InitMIC ==
    /\ mic_builder = BuilderGone
    /\ mic_cert = [built |-> FALSE,
                   mic |-> [node_id |-> "none", model_hash |-> "none", valid_from |-> 0,
                            valid_until |-> 0, issuer_public_key |-> "none",
                            signature |-> Sign("none", << >>)]]
    /\ mic_last = [op |-> "none", now |-> 0, result |-> "Ok"]

NextMIC ==
    \/ \E keypair \in MicKeys : MBNew(keypair)
    \/ MBModelHash
    \/ \E from \in MicTimes, until \in MicTimes : MBValidity(from, until)
    \/ \E now \in MicTimes, secs \in MicDurations : MBValidForFrom(now, secs)
    \/ MBBuild
    \/ \E issuer \in MicKeys, from \in MicTimes, until \in MicTimes :
          MICReceive(issuer, from, until)
    \/ \E field \in {"model_hash", "valid_from", "valid_until", "issuer_public_key",
                     "signature"} : MICTamper(field)
    \/ \E now \in MicTimes : MICValidate(now)

\* the signature of the MIC verifies over its signable bytes under its
\* issuer_public_key
MicSignatureVerifies(mic) ==
    VerifySignature(mic.issuer_public_key, SignableBytes(mic), mic.signature)

\* the MIC produced by the builder, read from the wire or tampered with
MicHeld == mic_cert.mic.node_id # "none"

\* C30 as stated: validate succeeds exactly when the signature verifies and
\* valid_from <= now <= valid_until; with a valid signature it fails with
\* MicNotYetValid when now < valid_from and with MicExpired when
\* now > valid_until; a MIC the builder produced has valid_until >
\* valid_from and validates at every now inside its window.
C30_ValidateOutcomes ==
    MicHeld =>
        \A now \in MicTimes :
            LET m == mic_cert.mic
                v == Validate(m, now)
            IN /\ v = "Ok" <=> (/\ MicSignatureVerifies(m)
                                /\ m.valid_from <= now
                                /\ now <= m.valid_until)
               /\ (MicSignatureVerifies(m) /\ now < m.valid_from) => v = "MicNotYetValid"
               /\ (MicSignatureVerifies(m) /\ now > m.valid_until) => v = "MicExpired"
               /\ mic_cert.built =>
                     /\ m.valid_until > m.valid_from
                     /\ (m.valid_from <= now /\ now <= m.valid_until) => v = "Ok"

\* C30 amended: as stated, except that with a valid signature validate
\* fails with MicExpired when now > valid_until and now >= valid_from: the
\* valid_from check comes first, so a signed MIC whose valid_until is below
\* its valid_from fails with MicNotYetValid at every now < valid_from. The
\* builder returns MicBuild instead of a MIC when valid_until <= valid_from.
C30_ValidateOutcomesInOrder ==
    /\ MicHeld =>
          \A now \in MicTimes :
              LET m == mic_cert.mic
                  v == Validate(m, now)
              IN /\ v = "Ok" <=> (/\ MicSignatureVerifies(m)
                                  /\ m.valid_from <= now
                                  /\ now <= m.valid_until)
                 /\ (MicSignatureVerifies(m) /\ now < m.valid_from) => v = "MicNotYetValid"
                 /\ (MicSignatureVerifies(m) /\ now > m.valid_until /\ now >= m.valid_from) =>
                       v = "MicExpired"
                 /\ ~MicSignatureVerifies(m) => v = "SignatureVerification"
                 /\ mic_cert.built =>
                       /\ m.valid_until > m.valid_from
                       /\ (m.valid_from <= now /\ now <= m.valid_until) => v = "Ok"
    /\ mic_last.op = "validate" => mic_last.result = Validate(mic_cert.mic, mic_last.now)
    /\ (mic_last.op = "build" /\ mic_last.result = "Ok") => mic_cert.built

\* a MIC signed by its issuer with valid_from 5 and valid_until 0, validated
\* at now = 2: past valid_until, before valid_from, and MicNotYetValid
C30_Witness ==
    /\ MicSignatureVerifies(mic_cert.mic)
    /\ mic_cert.mic.valid_from = 5
    /\ mic_cert.mic.valid_until = 0
    /\ mic_last = [op |-> "validate", now |-> 2, result |-> "MicNotYetValid"]

\* the heap entries poll_expired will act upon for seq: those it will not
\* drop as stale when it pops them, i.e. all entries of a pending seq
LiveEntries(seq) ==
    IF seq \in DOMAIN rt_pending
    THEN BagCardinality([e \in {f \in BagToSet(rt_heap) : f.seq = seq} |->
                            CopiesIn(e, rt_heap)])
    ELSE 0

\* C31: in every reachable state of the retransmission engine, each seq in
\* the pending map has at most one heap entry that poll_expired will emit or
\* give up (an entry whose seq is not pending is stale and is dropped when
\* popped).
C31_AtMostOneLiveEntry ==
    \A seq \in RTSeqs : LiveEntries(seq) <= 1

\* C32: receiving a DATA frame whose seq has arrived before (it has been
\* delivered or is in the out-of-order buffer) returns no payload and
\* leaves expected_seq and the out-of-order buffer as they were.
C32_DuplicateIsIdempotent ==
    \A i \in 1..Len(ro_sent) :
        ro_sent[i].seq \in ro_arrived =>
            LET r == ROReceiverReceive(ro_expected_seq, ro_recv_buffer, ro_sent[i])
            IN /\ r.delivered = << >>
               /\ r.expected_seq = ro_expected_seq
               /\ r.recv_buffer = ro_recv_buffer

\* C33: a seq that was already delivered is delivered a second time only
\* after its entry was discarded by garbage collection, and only after at
\* least DELIVERED_GC_THRESHOLD - DELIVERED_GC_DISCARD newer packets have
\* been received since its previous delivery.
C33_RecentSeqsProtected ==
    [][(ruVars' # ruVars /\ ru_last'.out # << >> /\ ru_count[ru_last'.seq] >= 1) =>
          /\ ru_last'.seq \notin ru_delivered
          /\ ru_since[ru_last'.seq] >= RUProtected]_vars

C35_LostOnlyWhenThresholdMet ==
    [][(ldVars' # ldVars /\ ld_last'.op = "on_ack_received") =>
          \A s \in ld_last'.lost :
              /\ s \in DOMAIN ld_sent
              /\ s # ld_last'.seq
              /\ s \notin DOMAIN ld_sent'
              /\ \/ ld_largest'.value >= s + PACKET_THRESHOLD
                 \/ DurationSince(ld_last'.now, ld_sent[s]) > TimeThreshold(ld_last'.srtt)]_vars

\* C36: a seq is in the sent map after a call only if that call was
\* on_packet_sent for it, or it was in the map before the call and the call
\* neither acknowledged it nor returned it as lost; the map of a new
\* detector is empty. Hence every seq in the map has been sent and has
\* since been neither acknowledged nor declared lost.
C36_SentMapHoldsOutstandingOnly ==
    [][ldVars' # ldVars =>
          \A s \in DOMAIN ld_sent' :
              \/ ld_last'.op = "on_packet_sent" /\ (s = ld_last'.seq \/ s \in DOMAIN ld_sent)
              \/ /\ ld_last'.op = "on_ack_received"
                 /\ s \in DOMAIN ld_sent
                 /\ s # ld_last'.seq
                 /\ s \notin ld_last'.lost]_vars

\* an acknowledgement declared one tracked seq lost and left another,
\* neither acknowledged nor lost, in the sent map
C36_Witness ==
    /\ ld_last.op = "on_ack_received"
    /\ ld_last.result = "ok"
    /\ ld_last.lost # {}
    /\ DOMAIN ld_sent # {}
    /\ ld_last.seq \notin DOMAIN ld_sent
    /\ ld_last.lost \cap DOMAIN ld_sent = {}

\* ------------------------------------------------------------------------
\* The per-mode senders on their own (strandstream/src/transport): send,
\* on_ack, retransmit and set_cwnd, followed with the number of DATA frames
\* send has returned
\* ------------------------------------------------------------------------

\* frames the sender emits in the model: enough for next_seq to wrap
MaxEmits == SeqSpace + 2

\* unacknowledged frames a reliable sender holds before the model stops
\* sending
MaxUnacked == 2

\* congestion windows given to set_cwnd: None, Some(0) and Some(1024)
Cwnds == {None, Some(0), Some(1024)}

\* BestEffortSender::set_cwnd
SenderSetCwnd(sender, cwnd) == [sender EXCEPT !.cwnd = cwnd]

SNCall(op, frames) ==
    /\ sn_last' = [op |-> op, frames |-> frames]
    /\ UNCHANGED <<roVars, ruVars, hsVars, rtVars, ldVars, ccVars, stVars, mxVars, cnVars, fcVars, rttVars, drVars, frVars, micVars>>

\* a new sender of one mode
SNNew(mode) ==
    /\ sn_mode' = mode
    /\ sn_sender' = SenderNew(mode)
    /\ sn_emitted' = 0
    /\ SNCall("new", << >>)

SNSend(data) ==
    LET r == SenderSend(sn_mode, sn_sender, StreamId, data)
    IN /\ sn_emitted < MaxEmits
       /\ sn_mode # "BestEffort" => Cardinality(DOMAIN sn_sender.send_buffer) < MaxUnacked
       /\ sn_sender' = r.sender
       /\ sn_emitted' = sn_emitted + Len(r.frames)
       /\ UNCHANGED sn_mode
       /\ SNCall("send", r.frames)

SNSetCwnd(cwnd) ==
    /\ sn_mode = "BestEffort"
    /\ sn_sender' = SenderSetCwnd(sn_sender, cwnd)
    /\ UNCHANGED <<sn_mode, sn_emitted>>
    /\ SNCall("set_cwnd", << >>)

SNOnAck(seq) ==
    /\ sn_sender' = SenderOnAck(sn_mode, sn_sender, seq)
    /\ sn_sender' # sn_sender
    /\ UNCHANGED <<sn_mode, sn_emitted>>
    /\ SNCall("on_ack", << >>)

SNRetransmit ==
    /\ sn_last.op # "retransmit"
    /\ UNCHANGED <<sn_mode, sn_sender, sn_emitted>>
    /\ SNCall("retransmit", SenderRetransmit(sn_mode, sn_sender))

\* BestEffortSender::new
InitSN ==
    /\ sn_mode = "BestEffort"
    /\ sn_sender = SenderNew("BestEffort")
    /\ sn_emitted = 0
    /\ sn_last = [op |-> "new", frames |-> << >>]

NextSN ==
    \/ \E mode \in TransportModes : SNNew(mode)
    \/ \E data \in Payloads : SNSend(data)
    \/ \E cwnd \in Cwnds : SNSetCwnd(cwnd)
    \/ \E seq \in 0..(SeqSpace - 1) : SNOnAck(seq)
    \/ SNRetransmit

\* the sender's window is closed: Best-Effort with cwnd == Some(0)
SNWindowClosed == sn_mode = "BestEffort" /\ sn_sender.cwnd = Some(0)

\* C37: the k-th DATA frame a sender emits by send carries seq k - 1 modulo
\* the size of the seq space, whatever on_ack, retransmit and set_cwnd calls
\* come between; a Best-Effort send made while cwnd == Some(0) returns no
\* frame and leaves next_seq as it was, so the next emitted frame continues
\* directly after the last emitted one.
C37_SeqsConsecutive ==
    /\ sn_sender.next_seq = sn_emitted % SeqSpace
    /\ \A data \in Payloads :
          LET r == SenderSend(sn_mode, sn_sender, StreamId, data)
          IN IF SNWindowClosed
             THEN r.frames = << >> /\ r.sender = sn_sender
             ELSE /\ r.frames = <<FrameData(StreamId, sn_emitted % SeqSpace, data)>>
                  /\ r.sender.next_seq = (sn_emitted + 1) % SeqSpace
    /\ sn_last.op = "send" =>
          \/ sn_last.frames = << >>
          \/ /\ Len(sn_last.frames) = 1
             /\ sn_emitted > 0
             /\ sn_last.frames[1].seq = (sn_emitted - 1) % SeqSpace

\* a Best-Effort sender that has emitted more frames than the seq space
\* holds, so next_seq has wrapped, dropped a payload under cwnd == Some(0)
C37_Witness ==
    /\ sn_mode = "BestEffort"
    /\ sn_emitted = SeqSpace + 1
    /\ sn_sender.next_seq = 1
    /\ sn_sender.cwnd = Some(0)
    /\ sn_last = [op |-> "send", frames |-> << >>]

\* ------------------------------------------------------------------------
\* One honest Initiator and one honest Responder over an unreliable channel
\* (src/nextrust/src/handshake/protocol.rs)
\*
\* The channel holds every message a party has produced (hs_wire).  It may
\* hand any of them to the receiving party at any time, any number of times
\* and in any order, or never: delay, loss, duplication and reordering.
\* It produces no message of its own.

NextHC ==
    \/ CreateInit
    \/ \E init \in WireOf("HandshakeInit"), now \in Nows : ProcessInit(init, now)
    \/ \E response \in WireOf("HandshakeResponse"), now \in Nows :
           ProcessResponse(response, now)
    \/ \E complete \in WireOf("HandshakeComplete") : ProcessComplete(complete)

\* the pair of ephemeral public keys a write key was derived from: the
\* party's own (the public half of the secret it used) and the peer's
EphemeralPairOf(key) == {X25519Public(secret) : secret \in key[2]}

\* C38: with one honest Initiator and one honest Responder whose messages
\* the channel may delay, drop, duplicate or reorder, the Responder is
\* Complete only when the Initiator is already Complete, and when both are
\* Complete the keys they hold were derived from the same pair of ephemeral
\* public keys: the one create_init sent and the one process_init sent.
C38_ResponderCompletesAfterInitiator ==
    /\ r_state.tag = "Complete" => i_state.tag = "Complete"
    /\ (i_state.tag = "Complete" /\ r_state.tag = "Complete") =>
           /\ EphemeralPairOf(i_state.session_key) = EphemeralPairOf(r_state.session_key)
           /\ EphemeralPairOf(i_state.server_write_key)
                  = EphemeralPairOf(r_state.server_write_key)
           /\ EphemeralPairOf(r_state.server_write_key)
                  = {r_accepted.init.ephemeral_pub, i_accepted.response.ephemeral_pub}
           /\ {m.ephemeral_pub : m \in WireOf("HandshakeInit") \cup WireOf("HandshakeResponse")}
                  = EphemeralPairOf(i_state.session_key)

\* C38 witness: both roles are Complete although deliveries were rejected
\* on both sides on the way (a duplicate, an early or a late message)
C38_Witness ==
    /\ i_state.tag = "Complete"
    /\ r_state.tag = "Complete"
    /\ r_last.op = "process_complete"
    /\ r_last.result = "Ok"
    /\ hs_clean = Disturbed
    /\ hs_failed = {"initiator", "responder"}

\* C39: within one stream's lifetime (every step but Stream::new), a Closed
\* stream stays Closed whatever is called on it (open, send, recv, close,
\* remote_close, reset, an incoming frame, ...), no call brings a stream
\* back to Idle, and open() returns Ok only on an Idle stream, which it
\* leaves Open: so open() succeeds at most once.
C39_ClosedIsAbsorbing ==
    [][(st_last'.op # "new") =>
          /\ st_stream.state = "Closed" => st_stream'.state = "Closed"
          /\ st_stream.state # "Idle" => st_stream'.state # "Idle"
          /\ (st_last'.op = "open" /\ st_last'.result = "Ok") =>
                 (st_stream.state = "Idle" /\ st_stream'.state = "Open")
          /\ (st_last'.op = "open" /\ st_stream.state # "Idle") =>
                 (st_last'.result = "InvalidStateTransition" /\ st_stream' = st_stream)]_vars

\* C39 witness: a stream closed from both sides, with data still in its
\* receive queue, has just refused an open()
C39_Witness ==
    /\ st_stream.state = "Closed"
    /\ st_hist = [close |-> TRUE, remote_close |-> TRUE, reset |-> FALSE]
    /\ st_last.op = "open"
    /\ st_last.result = "InvalidStateTransition"
    /\ st_stream.recv_buf # <<>>

\* ------------------------------------------------------------------------
\* Termination of RetransmissionEngine::poll_expired

\* the entries the while-let loop would pop next at `now`; the loop breaks
\* when there is none (empty heap, or earliest entry not yet due)
PollDue(st, now) == {e \in HeapTops(st.heap) : e.retransmit_at <= now}

\* the states the loop can be in after one more iteration
PollStep(sts, now) ==
    UNION {{PollIteration(st, e, now) : e \in PollDue(st, now)} : st \in sts}

\* the states the loop passes through in its first n iterations
RECURSIVE PollVisited(_, _, _)
PollVisited(sts, now, n) ==
    IF n = 0 \/ sts = {} THEN sts
    ELSE sts \cup PollVisited(PollStep(sts, now), now, n - 1)

\* the states the loop is in after exactly n iterations
RECURSIVE PollAfter(_, _, _)
PollAfter(sts, now, n) ==
    IF n = 0 \/ sts = {} THEN sts ELSE PollAfter(PollStep(sts, now), now, n - 1)

\* a bound on the iterations still to come: every heap entry can be popped
\* once for each attempt it has left, once more to be given up or dropped
PollVariant(heap) ==
    LET entries == BagToSet(heap)
    IN SumOver([e \in entries |-> CopiesIn(e, heap) * (MAX_RETRIES + 2 - e.attempts)],
               entries)

SameBag(a, b) ==
    \A x \in BagToSet(a) \cup BagToSet(b) : CopiesIn(x, a) = CopiesIn(x, b)

\* the iteration that popped e dropped it as stale
PollDiscarded(st, e, st2) ==
    /\ e.seq \notin DOMAIN st.pending
    /\ SameBag(st2.heap, st.heap (-) SetToBag({e}))
    /\ st2.pending = st.pending
    /\ st2.inflight = st.inflight
    /\ st2.retx = st.retx
    /\ st2.given = st.given

\* the iteration that popped e gave the packet up
PollGaveUp(st, e, st2) ==
    /\ e.seq \in DOMAIN st.pending
    /\ e.attempts >= MAX_RETRIES
    /\ SameBag(st2.heap, st.heap (-) SetToBag({e}))
    /\ e.seq \notin DOMAIN st2.pending
    /\ st2.retx = st.retx
    /\ st2.given = Bump(st.given, e.seq)

\* the iteration that popped e emitted the packet and re-armed it with one
\* more attempt
PollRearmed(st, e, st2) ==
    /\ e.seq \in DOMAIN st.pending
    /\ \E f \in BagToSet(st2.heap) :
          /\ f.seq = e.seq
          /\ f.attempts = e.attempts + 1
          /\ SameBag(st2.heap, (st.heap (-) SetToBag({e})) (+) SetToBag({f}))
    /\ st2.pending = st.pending
    /\ st2.retx = Bump(st.retx, e.seq)
    /\ st2.given = st.given

Init ==
    /\ InitRO
    /\ InitRU
    /\ InitHS
    /\ InitRT
    /\ InitLD
    /\ InitCC
    /\ InitST
    /\ InitMX
    /\ InitCN
    /\ InitFC
    /\ InitRTT
    /\ InitDR
    /\ InitFR
    /\ InitMIC
    /\ InitSN

SpecRO == Init /\ [][NextRO]_vars

SpecRU == Init /\ [][NextRU]_vars

SpecHS == Init /\ [][NextHS]_vars

SpecHC == Init /\ [][NextHC]_vars

SpecRT == Init /\ [][NextRT]_vars

SpecLD == Init /\ [][NextLD]_vars

SpecCC == Init /\ [][NextCC]_vars

SpecST == Init /\ [][NextST]_vars

SpecMX == Init /\ [][NextMX]_vars

SpecCN == Init /\ [][NextCN]_vars

SpecFC == Init /\ [][NextFC]_vars

SpecRTT == Init /\ [][NextRTT]_vars

SpecDR == Init /\ [][NextDR]_vars

SpecFR == Init /\ [][NextFR]_vars

SpecMIC == Init /\ [][NextMIC]_vars

SpecSN == Init /\ [][NextSN]_vars

Next == NextRO \/ NextRU \/ NextHS \/ NextRT \/ NextLD \/ NextCC \/ NextST \/ NextMX \/ NextCN \/ NextFC \/ NextRTT \/ NextDR \/ NextFR \/ NextMIC \/ NextSN

Spec == Init /\ [][Next]_vars

====
